---------------------------- MODULE Spec2Model ----------------------------
(***************************************************************************)
(* Model of the enterprise endpoint agent (unitechio/truespec_agent):      *)
(*   - the persistent buffer      (package buffer)                         *)
(*   - the telemetry sender       (package sender)                         *)
(*   - the bootstrap retry loop   (package identity)                       *)
(*   - the supervisor             (cmd/agent/main.go, run)                 *)
(*   - the config store           (package config)                         *)
(*   - the collector scheduler    (package scheduler)                      *)
(*   - the policy engine          (package policy)                         *)
(***************************************************************************)
EXTENDS Integers, Sequences, FiniteSets, Bags, TLC

(***************************************************************************)
(* Bounds of the model.                                                    *)
(***************************************************************************)
MaxClock == 3
MaxBatchLen == 3
MaxBufferBytes == 3
MaxRec == 4
BatchSize == 2
MaxJobs == 3
MaxCollectors == 3
MaxRefresh == 2
MaxEvents == 3
MaxLogWrites == 5
MaxUpdates == 2

(***************************************************************************)
(* Program constants.                                                      *)
(***************************************************************************)
maxRetries == 5
MaxAttempts == 10

VARIABLES
    \* ---- buffer.Buffer and its directory
    files,        \* the regular files of b.dir: name -> [size, mtime, data]
    currentSize,  \* b.currentSize
    maxSize,      \* b.maxSize
    clock,        \* the wall clock read by time.Now().UnixNano()
    written,      \* history: the successful Writes since the last Clear / New
    lastOp,       \* history: the last Buffer call and what it returned
    \* ---- sender.Sender
    queue,        \* s.queue (one record per queued TelemetryBatch)
    spc,          \* position of the goroutine that is inside flush
    attempt,      \* sendWithRetry's loop variable
    caller,       \* who holds s.mu: "none", "Send" or "Ticker"
    combined,     \* flush's combined batch
    drain,        \* flushBuffer: the batches of ReadAll still to re-send
    retryErr,     \* what the last sendWithRetry returned
    lastFlush,    \* history: what the last flush returned
    lastPost,     \* history: the last POST /api/v1/telemetry and its outcome
    nextRec,      \* the next record a collector submits
    tickerLive,   \* the goroutine of Sender.Start has not returned
    \* ---- shared cancellation
    ctxDone,
    \* ---- supervisor (run) and identity
    rpc,          \* position of run()
    cfgFile,      \* the file at configPath: [exists, c: the Config in it]
    cfg,          \* the *config.Config run() works on
    env,          \* ORG_ID and INSTALL_TOKEN
    certs,        \* the three files of the certificate triple
    bsKind,       \* which RunBootstrap is in progress: "none", "fresh", "re"
    bsAttempt,    \* RetryWithBackoff's loop variable
    bsCalls,      \* history: requests made to the bootstrap endpoint
    lastStatus,   \* status of the last bootstrap response (0: none yet)
    allAccepted,  \* history: every bootstrap response so far was a 200
    runErr,       \* the error run() returned
    needsRb,      \* what NeedsRebootstrap returned ("unset" before the call)
    boot0,        \* history: what was on disk when the process started
    started,      \* components started by run(): health monitor, scheduler
    \* ---- the config store (package config)
    conf,         \* the *Config the caller holds
    confFile,     \* the file at the config path: [state, doc]
    savePc,       \* position of Save: "idle", or "opened" inside os.WriteFile
    saveArg,      \* the Config of the Save in progress, or of the last Save
    confOp,       \* history: the last call on the config store and its result
    \* ---- scheduler.Scheduler
    schRunning,   \* s.running
    stopClosed,   \* s.stopCh has been closed
    schCollectors, \* s.collectors (the collectors' names)
    jobs,         \* the live job goroutines (s.wg counts them): a bag of
                  \* [name, pc, tick, bg]
    stopPc,       \* position of Stop: "idle", "waiting", or "panicked"
    collectedOk,  \* history: some Collect has returned without error
    \* ---- policy.Engine
    polHeap,      \* the Policy objects allocated so far
    polCurrent,   \* e.current: which object the engine points to
    polMu,        \* e.mu: [w: a writer holds it, r: readers holding it]
    refreshPc,    \* position of Refresh
    newPolicy,    \* Refresh's newPolicy: the object it decoded into
    rd,           \* a reader of the engine: its call and what it has seen
    \* ---- logging.AuditLogger and its file
    audFile,      \* the lines of the journal file: [ev, whole]
    audSynced,    \* how many lines of it have reached the disk
    audMu,        \* a.mu: 0, or the caller that holds it
    audCalls,     \* the callers of LogEvent: caller -> [pc, ev]
    audLog,       \* history: event -> [pred, res], pred the events whose
                  \* call had returned nil when this one began
    \* ---- logging.Logger and its files
    lg,           \* [level, maxSize, maxBackups, currentSize]
    logMu,        \* l.mu: 0, or the caller that holds it
    logFiles,     \* the files that exist: 0 is logPath, i is logPath.i;
                  \* each a sequence of records [id, ts, size]
    lw,           \* the callers of the logger: caller -> [pc, level, size, t0]
    logSeq,       \* history: how many records have been written
    \* ---- updater.Updater
    upc,          \* position of PerformUpdate
    goos,         \* runtime.GOOS
    meta,         \* the UpdateMetadata CheckForUpdate returned
    tmpFile,      \* the content of the downloaded file, "none" if none
    exe,          \* [cur, old]: the executable and its .old backup
    updHist,      \* history of the PerformUpdate in progress, or of the last
    \* ---- sender.Sender, sendWithRetry
    waits         \* history: the delays (in seconds) the sendWithRetry in
                  \* progress, or the last one, has waited between attempts

bufVars == <<files, currentSize, maxSize, clock, written, lastOp>>
sndVars == <<queue, spc, attempt, caller, combined, drain, retryErr,
             lastFlush, lastPost, nextRec, tickerLive>>
runVars == <<rpc, cfgFile, cfg, env, certs, bsKind, bsAttempt, bsCalls,
             lastStatus, allAccepted, runErr, needsRb, boot0, started>>
progVars == <<bufVars, sndVars, ctxDone, runVars>>
cfgVars == <<conf, confFile, savePc, saveArg, confOp>>
schVars == <<schRunning, stopClosed, schCollectors, jobs, stopPc, collectedOk>>
polVars == <<polHeap, polCurrent, polMu, refreshPc, newPolicy, rd>>
audVars == <<audFile, audSynced, audMu, audCalls, audLog>>
logVars == <<lg, logMu, logFiles, lw, logSeq>>
updVars == <<upc, goos, meta, tmpFile, exe, updHist>>
moreVars == <<audVars, logVars, updVars, waits>>
restVars == <<cfgVars, schVars, polVars, audVars, logVars, updVars>>
auxVars == <<cfgVars, schVars, polVars, moreVars>>
vars == <<files, currentSize, maxSize, clock, written, lastOp,
          queue, spc, attempt, caller, combined, drain, retryErr,
          lastFlush, lastPost, nextRec, tickerLive, ctxDone,
          rpc, cfgFile, cfg, env, certs, bsKind, bsAttempt, bsCalls,
          lastStatus, allAccepted, runErr, needsRb, boot0, started,
          conf, confFile, savePc, saveArg, confOp,
          schRunning, stopClosed, schCollectors, jobs, stopPc, collectedOk,
          polHeap, polCurrent, polMu, refreshPc, newPolicy, rd,
          audFile, audSynced, audMu, audCalls, audLog,
          lg, logMu, logFiles, lw, logSeq,
          upc, goos, meta, tmpFile, exe, updHist, waits>>

(***************************************************************************)
(* Helpers.                                                                *)
(***************************************************************************)
Min(S) == CHOOSE x \in S : \A y \in S : x <= y

RECURSIVE SortedNames(_)
\* os.ReadDir returns the entries sorted by file name
SortedNames(S) ==
    IF S = {} THEN <<>> ELSE <<Min(S)>> \o SortedNames(S \ {Min(S)})

EmptyDir == [n \in {} |-> 0]

\* len(json.Marshal(batch)): an envelope plus the encoded records
JsonLen(batch) == 1 + Len(batch)

\* a file holding the serialized batch, written at time t
BatchFile(batch, t) == [size |-> JsonLen(batch), mtime |-> t, data |-> batch]

\* a batch of k records as a direct caller of the Buffer API passes it
TestBatch(k) == [i \in 1..k |-> 0]

RECURSIVE SumSizes(_, _)
SumSizes(fs, S) ==
    IF S = {} THEN 0
    ELSE LET n == Min(S) IN fs[n].size + SumSizes(fs, S \ {n})

\* calculateSize: the total size of the files of the directory
calculateSize(fs) == SumSizes(fs, DOMAIN fs)

\* a ReadAll that returns the newest file first
ReadAllReversed(fs) ==
    LET names == SortedNames(DOMAIN fs)
    IN [i \in 1..Len(names) |-> fs[names[Len(names) + 1 - i]].data]
\* ReadAll: the contents of every file, in directory order
ReadAll(fs) ==
    LET names == SortedNames(DOMAIN fs)
    IN [i \in 1..Len(names) |-> fs[names[i]].data]

\* the files ReadAll's loop does not skip: os.ReadFile fails for the others
Readable(fs, unreadable) == [n \in DOMAIN fs \ unreadable |-> fs[n]]

(***************************************************************************)
(* Buffer.Write                                                            *)
(***************************************************************************)
\* the size check of Write
WriteRefused(cs, max, batch) == cs + JsonLen(batch) > max

\* the directory after os.WriteFile(batch_<t>.json): an existing file of
\* that name is replaced
WriteFile(fs, batch, t) ==
    [n \in DOMAIN fs \cup {t} |-> IF n = t THEN BatchFile(batch, t) ELSE fs[n]]

\* a Write that checks the limit only after the file is on disk
WriteResultLateCheck(fs, cs, max, batch, t) ==
    IF WriteRefused(cs, max, batch)
    THEN [ok |-> FALSE, files |-> WriteFile(fs, batch, t), size |-> cs]
    ELSE [ok |-> TRUE, files |-> WriteFile(fs, batch, t),
          size |-> cs + JsonLen(batch)]

WriteResult(fs, cs, max, batch, t) ==
    IF WriteRefused(cs, max, batch)
    THEN [ok |-> FALSE, files |-> fs, size |-> cs]
    ELSE [ok |-> TRUE, files |-> WriteFile(fs, batch, t),
          size |-> cs + JsonLen(batch)]

(***************************************************************************)
(* Buffer.Prune                                                            *)
(***************************************************************************)
Swap(s, i, j) ==
    [k \in 1..Len(s) |-> IF k = i THEN s[j] ELSE IF k = j THEN s[i] ELSE s[k]]

RECURSIVE SortInner(_, _, _, _)
SortInner(fs, s, i, j) ==
    IF j > Len(s) THEN s
    ELSE SortInner(fs,
                   IF fs[s[i]].mtime > fs[s[j]].mtime THEN Swap(s, i, j) ELSE s,
                   i, j + 1)

RECURSIVE SortOuter(_, _, _)
SortOuter(fs, s, i) ==
    IF i >= Len(s) THEN s ELSE SortOuter(fs, SortInner(fs, s, i, i + 1), i + 1)

\* the exchange sort of Prune: oldest modification time first
SortByModTime(fs) == SortOuter(fs, SortedNames(DOMAIN fs), 1)

RECURSIVE RemoveOldest(_, _, _, _, _, _)
\* the removal loop of Prune; failing is the set of files os.Remove refuses
RemoveOldest(list, k, fs, cs, max, failing) ==
    IF k > Len(list) \/ cs <= max THEN [files |-> fs, size |-> cs]
    ELSE IF list[k] \in failing
         THEN RemoveOldest(list, k + 1, fs, cs, max, failing)
         ELSE RemoveOldest(list, k + 1,
                           [n \in DOMAIN fs \ {list[k]} |-> fs[n]],
                           cs - fs[list[k]].size, max, failing)

PruneResult(fs, cs, max, failing) ==
    IF cs <= max THEN [files |-> fs, size |-> cs]
    ELSE RemoveOldest(SortByModTime(fs), 1, fs, cs, max, failing)

(***************************************************************************)
(* Buffer.Clear                                                            *)
(***************************************************************************)
ClearResult(fs, failing) ==
    [files |-> [n \in DOMAIN fs \cap failing |-> fs[n]], size |-> 0]

(***************************************************************************)
(* State after construction of the components that are not running.        *)
(***************************************************************************)
NoPost == [batch |-> <<>>, ok |-> FALSE, kind |-> "none"]
NoFlush == [result |-> "none", batch |-> <<>>]
NoOp(cs) == [op |-> "New", ok |-> TRUE, batch |-> <<>>, before |-> cs]

\* NewSender: an empty queue, nobody inside flush
SenderIdle ==
    /\ queue = <<>>
    /\ spc = "idle"
    /\ attempt = 0
    /\ caller = "none"
    /\ combined = <<>>
    /\ drain = <<>>
    /\ retryErr = "none"
    /\ lastFlush = NoFlush
    /\ lastPost = NoPost
    /\ nextRec = 1
    /\ tickerLive = FALSE

NoConfig == [bootstrapped |-> FALSE, org_id |-> "", agent_id |-> "",
             install_token |-> "", api_base_url |-> "",
             collection_interval |-> 0, batch_size |-> 0]
\* a file of the certificate triple: absent, unparseable, or PEM; a
\* certificate and a key that belong together carry the same pair number
NoFile == [state |-> "absent", pair |-> 0, notAfter |-> 0]
Garbage == [state |-> "garbage", pair |-> 0, notAfter |-> 0]
Pem(pair, hours) == [state |-> "pem", pair |-> pair, notAfter |-> hours]
NoCerts == [cert |-> NoFile, key |-> NoFile, ca |-> NoFile]
NoConfigFile == [exists |-> FALSE, c |-> NoConfig]

\* run() has not been started
RunOff ==
    /\ rpc = "off"
    /\ cfgFile = NoConfigFile
    /\ cfg = NoConfig
    /\ certs = NoCerts
    /\ bsKind = "none"
    /\ bsAttempt = 0
    /\ bsCalls = 0
    /\ lastStatus = 0
    /\ allAccepted = TRUE
    /\ runErr = "none"
    /\ needsRb = "unset"
    /\ boot0 = [cfgFile |-> NoConfigFile, certs |-> NoCerts]
    /\ started = {}

RunNotStarted ==
    /\ RunOff
    /\ env = [ORG_ID |-> "", INSTALL_TOKEN |-> ""]

\* a JSON document: the keys it holds and their values
NoDoc == [keys |-> {}, vals |-> NoConfig]
NoConfOp == [op |-> "none", ok |-> TRUE, before |-> NoConfig, c |-> NoConfig,
             agentID |-> "", apiBaseURL |-> ""]

\* nobody uses the config store
ConfIdle ==
    /\ conf = NoConfig
    /\ confFile = [state |-> "absent", doc |-> NoDoc]
    /\ savePc = "idle"
    /\ saveArg = NoConfig
    /\ confOp = NoConfOp

\* the collectors a scheduler can be given
CollectorNames == {"cpu", "disk"}

\* collectors.NewDefaultCollectors(), two of its five collectors
NewDefaultCollectors == <<"cpu", "disk">>

\* scheduler.New
SchedIdle ==
    /\ schRunning = FALSE
    /\ stopClosed = FALSE
    /\ schCollectors = NewDefaultCollectors
    /\ jobs = EmptyBag
    /\ stopPc = "idle"
    /\ collectedOk = FALSE

CollectorPolicy(enabled, interval) == [enabled |-> enabled, interval |-> interval]

\* defaultPolicy(): version "1.0.0", every collector enabled
defaultPolicy ==
    [version |-> 1,
     collectors |-> [cpu |-> CollectorPolicy(TRUE, 60),
                     disk |-> CollectorPolicy(TRUE, 300)]]

NoReader == [pc |-> "idle", op |-> "none", name |-> "", cur |-> 0, snap |-> 0,
             copy |-> defaultPolicy, version |-> 0,
             collectors |-> defaultPolicy.collectors,
             enabled |-> FALSE, interval |-> 0]

\* policy.NewEngine
PolIdle ==
    /\ polHeap = <<defaultPolicy>>
    /\ polCurrent = 1
    /\ polMu = [w |-> FALSE, r |-> 0]
    /\ refreshPc = "idle"
    /\ newPolicy = 0
    /\ rd = NoReader

\* the callers of LogEvent and of the Logger
AudCallers == {1, 2}
LogWriters == {1, 2}

\* logging.NewAuditLogger on a new file; nobody has called LogEvent
AudIdle ==
    /\ audFile = <<>>
    /\ audSynced = 0
    /\ audMu = 0
    /\ audCalls = [t \in AudCallers |-> [pc |-> "idle", ev |-> 0]]
    /\ audLog = <<>>

\* the levels of logger.go, in the order of the const block
DEBUG == 0
INFO == 1
WARNING == 2

NoLogCall == [pc |-> "idle", level |-> INFO, size |-> 0, t0 |-> 0]

\* logging.NewLogger in a new directory: the file is created empty
NewLogger(level, max, backups) ==
    /\ lg = [level |-> level, maxSize |-> max,
             maxBackups |-> backups, currentSize |-> 0]
    /\ logMu = 0
    /\ logFiles = (0 :> <<>>)
    /\ lw = [t \in LogWriters |-> NoLogCall]
    /\ logSeq = 0

LogIdle == NewLogger(INFO, 2, 1)

NoMeta == [checksum |-> "", signature |-> ""]
NoUpdHist == [status |-> 0, downloaded |-> FALSE, verify |-> "unset",
              installCalled |-> FALSE, exe0 |-> [cur |-> "v1", old |-> "missing"],
              runs |-> 0]

\* updater.NewUpdater, PerformUpdate not called yet
NewUpdater(os) ==
    /\ upc = "idle"
    /\ goos = os
    /\ meta = NoMeta
    /\ tmpFile = "none"
    /\ exe = [cur |-> "v1", old |-> "missing"]
    /\ updHist = NoUpdHist

UpdIdle == NewUpdater("linux")

MoreIdle ==
    /\ AudIdle
    /\ LogIdle
    /\ UpdIdle
    /\ waits = <<>>

AuxIdle ==
    /\ ConfIdle
    /\ SchedIdle
    /\ PolIdle
    /\ MoreIdle

(***************************************************************************)
(* The Buffer API called directly (as the package's tests do).             *)
(***************************************************************************)
\* b.Write(data) at the current clock reading
BufWrite(k) ==
    LET b == TestBatch(k)
        r == WriteResult(files, currentSize, maxSize, b, clock)
    IN /\ files' = r.files
       /\ currentSize' = r.size
       /\ written' = IF r.ok THEN Append(written, [name |-> clock, data |-> b])
                             ELSE written
       /\ lastOp' = [op |-> "Write", ok |-> r.ok, batch |-> b,
                     before |-> currentSize]
       /\ UNCHANGED <<maxSize, clock, sndVars, ctxDone, runVars, auxVars>>

\* b.Prune(); failing: the files whose os.Remove fails
BufPrune(failing) ==
    LET r == PruneResult(files, currentSize, maxSize, failing)
    IN /\ files' = r.files
       /\ currentSize' = r.size
       /\ lastOp' = [op |-> "Prune", ok |-> TRUE, batch |-> <<>>,
                     before |-> currentSize]
       /\ UNCHANGED <<maxSize, clock, written, sndVars, ctxDone, runVars, auxVars>>

\* b.Clear(); failing: the files whose os.Remove fails
BufClear(failing) ==
    LET r == ClearResult(files, failing)
    IN /\ files' = r.files
       /\ currentSize' = r.size
       /\ written' = <<>>
       /\ lastOp' = [op |-> "Clear", ok |-> TRUE, batch |-> <<>>,
                     before |-> currentSize]
       /\ UNCHANGED <<maxSize, clock, sndVars, ctxDone, runVars, auxVars>>

\* buffer.New(dir, max, logger) over the directory as it is
BufNew(max) ==
    /\ maxSize' = max
    /\ currentSize' = calculateSize(files)
    /\ written' = <<>>
    /\ lastOp' = NoOp(calculateSize(files))
    /\ UNCHANGED <<files, clock, sndVars, ctxDone, runVars, auxVars>>

\* the wall clock advances
Tick ==
    /\ clock < MaxClock
    /\ clock' = clock + 1
    /\ UNCHANGED <<files, currentSize, maxSize, written, lastOp,
                   sndVars, ctxDone, runVars, auxVars>>

\* the limits a Buffer is created with
MaxSizes == {MaxBufferBytes}

\* directories left behind by an earlier run: files written at times 0 and 1
InitDirs ==
    {[n \in S |-> [size |-> JsonLen(TestBatch(ln[n])), mtime |-> mt[n],
                   data |-> TestBatch(ln[n])]] :
        <<S, ln, mt>> \in {<<S, ln, mt>> \in
             (SUBSET {0, 1}) \X [{0, 1} -> 1..2] \X [{0, 1} -> 0..1] : TRUE}}

\* buffer.New over such a directory
BufInit ==
    /\ files \in InitDirs
    /\ maxSize \in MaxSizes
    /\ currentSize = calculateSize(files)
    /\ clock = 2
    /\ written = <<>>
    /\ lastOp = NoOp(currentSize)

InitBuffer ==
    /\ BufInit
    /\ SenderIdle
    /\ ctxDone = FALSE
    /\ RunNotStarted
    /\ AuxIdle

NextBuffer ==
    \/ \E k \in 0..MaxBatchLen : BufWrite(k)
    \/ \E failing \in SUBSET DOMAIN files : BufPrune(failing)
    \/ \E failing \in SUBSET DOMAIN files : BufClear(failing)
    \/ \E max \in MaxSizes : BufNew(max)
    \/ Tick

SpecBuffer == InitBuffer /\ [][NextBuffer]_vars

(***************************************************************************)
(* sender.Sender                                                           *)
(***************************************************************************)
\* flush, when sendWithRetry has returned an error: the combined batch goes
\* to the buffer and the error is returned; the queue is left as it is
\* a flush that drops the pending records whenever it gives up on them
FlushFailedDropsQueue ==
    LET r == WriteResult(files, currentSize, maxSize, combined, clock)
    IN /\ files' = r.files
       /\ currentSize' = r.size
       /\ written' = IF r.ok
                     THEN Append(written, [name |-> clock, data |-> combined])
                     ELSE written
       /\ lastOp' = [op |-> "Write", ok |-> r.ok, batch |-> combined,
                     before |-> currentSize]
       /\ lastFlush' = [result |-> IF r.ok THEN "buffered" ELSE "buffer_failed",
                        batch |-> combined]
       /\ spc' = "idle"
       /\ caller' = "none"
       /\ queue' = <<>>
       /\ UNCHANGED <<maxSize, clock>>

FlushFailed ==
    LET r == WriteResult(files, currentSize, maxSize, combined, clock)
    IN /\ files' = r.files
       /\ currentSize' = r.size
       /\ written' = IF r.ok
                     THEN Append(written, [name |-> clock, data |-> combined])
                     ELSE written
       /\ lastOp' = [op |-> "Write", ok |-> r.ok, batch |-> combined,
                     before |-> currentSize]
       /\ lastFlush' = [result |-> IF r.ok THEN "buffered" ELSE "buffer_failed",
                        batch |-> combined]
       /\ spc' = "idle"
       /\ caller' = "none"
       /\ UNCHANGED <<queue, maxSize, clock>>

\* flush, from its entry to the first POST of sendWithRetry
EnterFlush(who, q) ==
    /\ combined' = q
    /\ attempt' = 0
    /\ waits' = <<>>
    /\ spc' = "post"
    /\ caller' = who

\* a Send that does not take s.mu
SendWithoutLock ==
    /\ spc \in {"idle", "post", "backoff"}
    /\ nextRec <= MaxRec
    /\ queue' = Append(queue, nextRec)
    /\ nextRec' = nextRec + 1
    /\ IF Len(queue) + 1 >= BatchSize
       THEN EnterFlush("Send", Append(queue, nextRec))
       ELSE UNCHANGED <<combined, attempt, waits, spc, caller>>
    /\ UNCHANGED <<bufVars, drain, retryErr, lastFlush, lastPost, tickerLive,
                   ctxDone, runVars, restVars>>

\* Sender.Send: queue the record, flush when the batch size is reached
Send ==
    /\ caller = "none"
    /\ nextRec <= MaxRec
    /\ queue' = Append(queue, nextRec)
    /\ nextRec' = nextRec + 1
    /\ IF Len(queue) + 1 >= BatchSize
       THEN EnterFlush("Send", Append(queue, nextRec))
       ELSE UNCHANGED <<combined, attempt, waits, spc, caller>>
    /\ UNCHANGED <<bufVars, drain, retryErr, lastFlush, lastPost, tickerLive,
                   ctxDone, runVars, restVars>>

\* Sender.Start: the goroutine of the periodic flush
Start ==
    /\ ~tickerLive
    /\ ~ctxDone
    /\ tickerLive' = TRUE
    /\ UNCHANGED <<bufVars, queue, spc, attempt, caller, combined, drain,
                   retryErr, lastFlush, lastPost, nextRec, ctxDone, runVars, auxVars>>

\* the ticker fires: lock, flush, unlock
TickerFlush ==
    /\ tickerLive
    /\ caller = "none"
    /\ IF queue = <<>>
       THEN /\ lastFlush' = [result |-> "empty", batch |-> <<>>]
            /\ UNCHANGED <<combined, attempt, waits, spc, caller>>
       ELSE /\ EnterFlush("Ticker", queue)
            /\ UNCHANGED lastFlush
    /\ UNCHANGED <<bufVars, queue, drain, retryErr, lastPost, nextRec,
                   tickerLive, ctxDone, runVars, restVars>>

\* the goroutine of Start returns on ctx.Done()
TickerExit ==
    /\ tickerLive
    /\ ctxDone
    /\ caller # "Ticker"
    /\ tickerLive' = FALSE
    /\ UNCHANGED <<bufVars, queue, spc, attempt, caller, combined, drain,
                   retryErr, lastFlush, lastPost, nextRec, ctxDone, runVars, auxVars>>

\* sendBatch of the combined batch answers; on success flush clears the
\* queue and flushBuffer reads the buffer (ReadAll skips the files in
\* unreadable) and returns if it got no batch
PostLive(ok, unreadable) ==
    /\ spc = "post"
    /\ ok => ~ctxDone
    /\ ~ok => unreadable = {}
    /\ lastPost' = [batch |-> combined, ok |-> ok, kind |-> "live"]
    /\ IF ok
       THEN /\ retryErr' = "nil"
            /\ queue' = <<>>
            /\ lastOp' = [op |-> "ReadAll", ok |-> TRUE, batch |-> <<>>,
                          before |-> currentSize, skipped |-> unreadable]
            /\ IF ReadAll(Readable(files, unreadable)) = <<>>
               THEN /\ spc' = "idle"
                    /\ caller' = "none"
                    /\ lastFlush' = [result |-> "sent", batch |-> combined]
                    /\ UNCHANGED drain
               ELSE /\ spc' = "drain"
                    /\ drain' = ReadAll(Readable(files, unreadable))
                    /\ UNCHANGED <<caller, lastFlush>>
            /\ UNCHANGED <<files, currentSize, maxSize, clock, written, attempt>>
       ELSE IF attempt + 1 < maxRetries
            THEN /\ attempt' = attempt + 1
                 /\ spc' = "backoff"
                 /\ UNCHANGED <<bufVars, queue, caller, drain, retryErr,
                                lastFlush>>
            ELSE /\ retryErr' = "exhausted"
                 /\ FlushFailed
                 /\ UNCHANGED <<attempt, drain>>
    /\ UNCHANGED <<combined, nextRec, tickerLive, ctxDone, runVars, auxVars>>

\* baseDelay of sendWithRetry, in seconds
baseDelay == 1

\* a delay that does not double
DelayFlat(a) == baseDelay
\* delay := baseDelay * time.Duration(1<<uint(attempt-1))
Delay(a) == baseDelay * 2^(a - 1)

\* sendWithRetry: time.After(delay) fires
BackoffElapsed ==
    /\ spc = "backoff"
    /\ ~ctxDone
    /\ spc' = "post"
    /\ waits' = Append(waits, Delay(attempt))
    /\ UNCHANGED <<bufVars, queue, attempt, caller, combined, drain, retryErr,
                   lastFlush, lastPost, nextRec, tickerLive, ctxDone, runVars,
                   restVars>>

\* sendWithRetry: ctx.Done() wins the select; flush buffers the batch
BackoffCancelled ==
    /\ spc = "backoff"
    /\ ctxDone
    /\ retryErr' = "cancelled"
    /\ FlushFailed
    /\ UNCHANGED <<attempt, combined, drain, lastPost, nextRec, tickerLive,
                   ctxDone, runVars, auxVars>>

\* flushBuffer: re-send the next buffered batch; stop at the first failure,
\* Clear after the last success
DrainStep(ok, failing) ==
    /\ spc = "drain"
    /\ ok => ~ctxDone
    /\ lastPost' = [batch |-> Head(drain), ok |-> ok, kind |-> "drain"]
    /\ IF ok /\ Len(drain) > 1
       THEN /\ drain' = Tail(drain)
            /\ UNCHANGED <<bufVars, spc, caller, lastFlush>>
       ELSE /\ drain' = <<>>
            /\ spc' = "idle"
            /\ caller' = "none"
            /\ lastFlush' = [result |-> "sent", batch |-> combined]
            /\ IF ok
               THEN LET r == ClearResult(files, failing)
                    IN /\ files' = r.files
                       /\ currentSize' = r.size
                       /\ written' = <<>>
                       /\ lastOp' = [op |-> "Clear", ok |-> TRUE,
                                     batch |-> <<>>, before |-> currentSize]
                       /\ UNCHANGED <<maxSize, clock>>
               ELSE UNCHANGED bufVars
    /\ UNCHANGED <<queue, attempt, combined, retryErr, nextRec, tickerLive,
                   ctxDone, runVars, auxVars>>

\* the supervisor's context is cancelled
Cancel ==
    /\ ~ctxDone
    /\ ctxDone' = TRUE
    /\ UNCHANGED <<bufVars, sndVars, runVars, auxVars>>

\* NewSender over a buffer directory that is empty or holds one batch that
\* an earlier run left behind
InitSender ==
    /\ files \in {d \in InitDirs : DOMAIN d \subseteq {1} /\
                                   \A n \in DOMAIN d : d[n].mtime = n}
    /\ maxSize \in MaxSizes
    /\ currentSize = calculateSize(files)
    /\ clock = 2
    /\ written = <<>>
    /\ lastOp = NoOp(currentSize)
    /\ SenderIdle
    /\ ctxDone = FALSE
    /\ RunNotStarted
    /\ AuxIdle

NextSender ==
    \/ Send
    \/ Start
    \/ TickerFlush
    \/ TickerExit
    \/ \E ok \in BOOLEAN : \E unreadable \in SUBSET DOMAIN files :
          PostLive(ok, unreadable)
    \/ BackoffElapsed
    \/ BackoffCancelled
    \/ \E ok \in BOOLEAN : \E failing \in SUBSET DOMAIN files :
          DrainStep(ok, failing)
    \/ Cancel
    \/ Tick

SpecSender == InitSender /\ [][NextSender]_vars

\* NewSender over a buffer directory in which an earlier run, with a larger
\* max_buffer_bytes, left two batches
InitDrain ==
    /\ files \in {d \in InitDirs : DOMAIN d = {0, 1} /\
                                   \A n \in DOMAIN d : d[n].mtime = n}
    /\ maxSize \in MaxSizes
    /\ currentSize = calculateSize(files)
    /\ clock = 2
    /\ written = <<>>
    /\ lastOp = NoOp(currentSize)
    /\ SenderIdle
    /\ ctxDone = FALSE
    /\ RunNotStarted
    /\ AuxIdle

\* the sender used through Send alone: Start has not been called
NextDrain ==
    \/ Send
    \/ \E ok \in BOOLEAN : \E unreadable \in SUBSET DOMAIN files :
          PostLive(ok, unreadable)
    \/ BackoffElapsed
    \/ BackoffCancelled
    \/ \E ok \in BOOLEAN : \E failing \in SUBSET DOMAIN files :
          DrainStep(ok, failing)
    \/ Cancel
    \/ Tick

SpecDrain == InitDrain /\ [][NextDrain]_vars

(***************************************************************************)
(* config.Config                                                           *)
(***************************************************************************)
\* NewBootstrapConfig: the defaults plus ORG_ID and INSTALL_TOKEN
NewBootstrapConfig(e) ==
    [bootstrapped |-> FALSE, org_id |-> e.ORG_ID, agent_id |-> "",
     install_token |-> e.INSTALL_TOKEN, api_base_url |-> "",
     collection_interval |-> 60, batch_size |-> 100]

\* an overlay in which a set environment variable wins over the file
LoadOverlayEnvWins(c, e) ==
    [c EXCEPT !.org_id = IF e.ORG_ID # "" THEN e.ORG_ID ELSE c.org_id,
              !.install_token = IF e.INSTALL_TOKEN # "" THEN e.INSTALL_TOKEN
                                ELSE c.install_token]

\* Load: the stored config, its empty org_id and install_token taken from
\* the environment
LoadOverlay(c, e) ==
    [c EXCEPT !.org_id = IF c.org_id = "" THEN e.ORG_ID ELSE c.org_id,
              !.install_token = IF c.install_token = "" THEN e.INSTALL_TOKEN
                                ELSE c.install_token]

ValidateBootstrap(c) == c.org_id # "" /\ c.install_token # ""

\* a validator that takes the interval's limit as exclusive
ValidateRuntimeExclusive(c) ==
    /\ c.bootstrapped
    /\ c.org_id # ""
    /\ c.agent_id # ""
    /\ c.api_base_url # ""
    /\ c.collection_interval > 10
    /\ c.batch_size >= 1
    /\ c.batch_size <= 1000

ValidateRuntime(c) ==
    /\ c.bootstrapped
    /\ c.org_id # ""
    /\ c.agent_id # ""
    /\ c.api_base_url # ""
    /\ c.collection_interval >= 10
    /\ c.batch_size >= 1
    /\ c.batch_size <= 1000

\* a MarkBootstrapped that leaves the install token in place
MarkBootstrappedKeepsToken(c, agentID, apiBaseURL) ==
    [c EXCEPT !.bootstrapped = TRUE, !.agent_id = agentID,
              !.api_base_url = apiBaseURL]

MarkBootstrapped(c, agentID, apiBaseURL) ==
    [c EXCEPT !.bootstrapped = TRUE, !.agent_id = agentID,
              !.api_base_url = apiBaseURL, !.install_token = ""]

(***************************************************************************)
(* identity.Manager                                                        *)
(***************************************************************************)
\* the second argument of tls.X509KeyPair when the caller passes nil
NilPEM == NoFile

\* tls.X509KeyPair(certPEM, keyPEM): succeeds when the certificate input
\* holds a certificate, the key input holds a private key, and the key
\* belongs to the certificate; without PEM data in the key input it fails
X509KeyPair(certPEM, keyPEM) ==
    /\ certPEM.state = "pem"
    /\ keyPEM.state = "pem"
    /\ certPEM.pair = keyPEM.pair

HasIdentity(cs) ==
    /\ cs.cert.state # "absent"
    /\ cs.key.state # "absent"
    /\ cs.ca.state # "absent"

\* VerifyIdentity returns nil
VerifyIdentity(cs) == X509KeyPair(cs.cert, cs.key)

\* NeedsRebootstrap: the expiry check parses the certificate with
\* tls.X509KeyPair(certPEM, nil)
NeedsRebootstrap(cs) ==
    IF ~HasIdentity(cs) THEN TRUE
    ELSE IF ~VerifyIdentity(cs) THEN TRUE
    ELSE IF ~X509KeyPair(cs.cert, NilPEM) THEN TRUE
    ELSE cs.cert.notAfter < 24

\* saveCertificates: the triple of a bootstrap response (NotAfter in 365 d)
IssuedCerts == [cert |-> Pem(2, 8760), key |-> Pem(2, 8760), ca |-> Pem(0, 8760)]

\* the answers of the bootstrap endpoint; 0: no HTTP response at all
Statuses == {0, 200, 401, 429, 503}

\* IsRetryable(err), for the error of a bootstrap call that got this status;
\* RetryWithBackoff does not consult it
IsRetryable(status) == TRUE

(***************************************************************************)
(* run(): the supervisor                                                   *)
(***************************************************************************)
RunFails(err) ==
    /\ rpc' = "exit_err"
    /\ runErr' = err

\* steps 1-4: load the config; without a config file build the bootstrap
\* config from the environment and enter RunBootstrap
RunLoad ==
    /\ rpc = "init"
    /\ IF ~cfgFile.exists
       THEN LET c == NewBootstrapConfig(env)
            IN /\ cfg' = c
               /\ IF ValidateBootstrap(c)
                  THEN /\ rpc' = "bs_call"
                       /\ bsKind' = "fresh"
                       /\ UNCHANGED runErr
                  ELSE /\ RunFails("bootstrap validation failed")
                       /\ UNCHANGED bsKind
       ELSE /\ cfg' = LoadOverlay(cfgFile.c, env)
            /\ rpc' = "loaded"
            /\ UNCHANGED <<bsKind, runErr>>
    /\ bsAttempt' = 0
    /\ UNCHANGED <<bufVars, sndVars, ctxDone, cfgFile, env, certs, bsCalls,
                   lastStatus, allAccepted, needsRb, boot0, started, auxVars>>

\* steps 7-9: validate the runtime config, ask NeedsRebootstrap and, if it
\* says so, reset bootstrapped and enter RunBootstrap again
RunCheck ==
    /\ rpc = "loaded"
    /\ IF ~ValidateRuntime(cfg)
       THEN /\ RunFails("invalid runtime configuration")
            /\ UNCHANGED <<cfg, needsRb, bsKind>>
       ELSE /\ needsRb' = IF NeedsRebootstrap(certs) THEN "true" ELSE "false"
            /\ IF NeedsRebootstrap(certs)
               THEN /\ cfg' = [cfg EXCEPT !.bootstrapped = FALSE]
                    /\ IF ValidateBootstrap(cfg)
                       THEN /\ rpc' = "bs_call"
                            /\ bsKind' = "re"
                            /\ UNCHANGED runErr
                       ELSE /\ RunFails("re-bootstrap failed")
                            /\ UNCHANGED bsKind
               ELSE /\ rpc' = "verify"
                    /\ UNCHANGED <<cfg, bsKind, runErr>>
    /\ bsAttempt' = 0
    /\ UNCHANGED <<bufVars, sndVars, ctxDone, cfgFile, env, certs, bsCalls,
                   lastStatus, allAccepted, boot0, started, auxVars>>

\* RetryWithBackoff calls fn: one request to the bootstrap endpoint.  On a
\* 200 the loop returns nil and RunBootstrap goes on to saveCertificates;
\* otherwise the loop waits, unless this was the last attempt
BsCall(status) ==
    /\ rpc = "bs_call"
    /\ ctxDone => status = 0
    /\ bsCalls' = IF ctxDone THEN bsCalls ELSE bsCalls + 1
    /\ lastStatus' = status
    /\ allAccepted' = (allAccepted /\ status = 200)
    /\ IF status = 200
       THEN /\ rpc' = "save_cert"
            /\ UNCHANGED runErr
       ELSE IF bsAttempt = MaxAttempts - 1
            THEN RunFails("max retry attempts exceeded")
            ELSE /\ rpc' = "bs_wait"
                 /\ UNCHANGED runErr
    /\ UNCHANGED <<bufVars, sndVars, ctxDone, env, bsAttempt, needsRb, boot0,
                   started, certs, cfg, cfgFile, bsKind, auxVars>>

\* os.WriteFile returns nil, or an error after it truncated the file and
\* wrote a part of the data, or an error from the open with the file as it was
WriteOutcomes == {"ok", "partial", "none"}

\* a certificate file after os.WriteFile(path, data, perm)
WritePEM(old, data, out) ==
    IF out = "ok" THEN data
    ELSE IF out = "partial" THEN Garbage
    ELSE old

\* a config file that was truncated: no config can be read from it
DamagedConfigFile == [exists |-> TRUE, c |-> NoConfig]

\* the config file after cfg.Save(path)
SaveFile(old, c, out) ==
    IF out = "ok" THEN [exists |-> TRUE, c |-> c]
    ELSE IF out = "partial" THEN DamagedConfigFile
    ELSE old

\* the file that saveCertificates writes at each of its three steps, and the
\* step that follows
CertFileAt(pc) ==
    IF pc = "save_cert" THEN "cert" ELSE IF pc = "save_key" THEN "key" ELSE "ca"
AfterWrite(pc) ==
    IF pc = "save_cert" THEN "save_key"
    ELSE IF pc = "save_key" THEN "save_ca"
    ELSE "save_cfg"

\* a RunBootstrap that marks the config once the certificate file is written
MarkedAfterCert == "save_cert"

\* RunBootstrap calls cfg.MarkBootstrapped when saveCertificates has
\* returned nil, that is after its last write
MarkedAfter == "save_ca"

\* saveCertificates, one os.WriteFile at a time: a failed write ends
\* RunBootstrap and run() with the error; after the last one RunBootstrap
\* marks the config and returns it
BsSaveCertificate(out) ==
    /\ rpc \in {"save_cert", "save_key", "save_ca"}
    /\ certs' = [certs EXCEPT ![CertFileAt(rpc)] =
                    WritePEM(certs[CertFileAt(rpc)],
                             IssuedCerts[CertFileAt(rpc)], out)]
    /\ IF out # "ok"
       THEN /\ RunFails("failed to save certificates")
            /\ UNCHANGED cfg
       ELSE /\ rpc' = AfterWrite(rpc)
            /\ cfg' = IF rpc = MarkedAfter
                      THEN MarkBootstrapped(cfg, "agent", "api")
                      ELSE cfg
            /\ UNCHANGED runErr
    /\ UNCHANGED <<bufVars, sndVars, ctxDone, env, cfgFile, bsKind, bsAttempt,
                   bsCalls, lastStatus, allAccepted, needsRb, boot0, started,
                   auxVars>>

\* run() saves the config that RunBootstrap returned: after the first
\* bootstrap a failed Save is returned, after a re-bootstrap it is logged
\* as a warning and run() goes on
RunSaveConfig(out) ==
    /\ rpc = "save_cfg"
    /\ cfgFile' = SaveFile(cfgFile, cfg, out)
    /\ IF out # "ok" /\ bsKind = "fresh"
       THEN RunFails("failed to save config")
       ELSE /\ rpc' = IF bsKind = "fresh" THEN "loaded" ELSE "verify"
            /\ UNCHANGED runErr
    /\ bsKind' = "none"
    /\ UNCHANGED <<bufVars, sndVars, ctxDone, env, cfg, certs, bsAttempt,
                   bsCalls, lastStatus, allAccepted, needsRb, boot0, started,
                   auxVars>>

\* RetryWithBackoff: time.After(delay) fires, the next attempt begins
BsWaitElapsed ==
    /\ rpc = "bs_wait"
    /\ ~ctxDone
    /\ bsAttempt' = bsAttempt + 1
    /\ rpc' = "bs_call"
    /\ UNCHANGED <<bufVars, sndVars, ctxDone, cfgFile, cfg, env, certs, bsKind,
                   bsCalls, lastStatus, allAccepted, runErr, needsRb, boot0,
                   started, auxVars>>

\* a retry loop that reports the last error of the operation when cancelled
BsWaitCancelledLastErr ==
    /\ rpc = "bs_wait"
    /\ ctxDone
    /\ RunFails("max retry attempts exceeded")
    /\ UNCHANGED <<bufVars, sndVars, ctxDone, cfgFile, cfg, env, certs, bsKind,
                   bsAttempt, bsCalls, lastStatus, allAccepted, needsRb, boot0,
                   started, auxVars>>

\* RetryWithBackoff: ctx.Done() wins the select
BsWaitCancelled ==
    /\ rpc = "bs_wait"
    /\ ctxDone
    /\ RunFails("retry cancelled")
    /\ UNCHANGED <<bufVars, sndVars, ctxDone, cfgFile, cfg, env, certs, bsKind,
                   bsAttempt, bsCalls, lastStatus, allAccepted, needsRb, boot0,
                   started, auxVars>>

\* steps 10-13: verify the identity, then start the policy engine, the
\* health monitor and the scheduler
RunVerify ==
    /\ rpc = "verify"
    /\ IF VerifyIdentity(certs)
       THEN /\ rpc' = "run_loop"
            /\ started' = {"health", "scheduler"}
            /\ UNCHANGED runErr
       ELSE /\ RunFails("identity verification failed")
            /\ UNCHANGED started
    /\ UNCHANGED <<bufVars, sndVars, ctxDone, cfgFile, cfg, env, certs, bsKind,
                   bsAttempt, bsCalls, lastStatus, allAccepted, needsRb, boot0, auxVars>>

\* step 14: ctx.Done() in the run loop: stop the components, return nil
RunShutdown ==
    /\ rpc = "run_loop"
    /\ ctxDone
    /\ rpc' = "exit_ok"
    /\ started' = {}
    /\ UNCHANGED <<bufVars, sndVars, ctxDone, cfgFile, cfg, env, certs, bsKind,
                   bsAttempt, bsCalls, lastStatus, allAccepted, runErr, needsRb,
                   boot0, auxVars>>

\* a config as run() saved it after a bootstrap
SavedConfig ==
    [bootstrapped |-> TRUE, org_id |-> "org", agent_id |-> "agent",
     install_token |-> "", api_base_url |-> "api",
     collection_interval |-> 60, batch_size |-> 100]

\* what a machine can hold when the agent starts: nothing, or the config
\* and the triple of an earlier run (with the triple possibly near expiry,
\* damaged or incomplete), or a hand-written config not yet bootstrapped
StartDisks ==
    {[cfgFile |-> NoConfigFile, certs |-> NoCerts]}
    \cup {[cfgFile |-> [exists |-> TRUE, c |-> SavedConfig], certs |-> cs] :
            cs \in {[cert |-> Pem(1, 8760), key |-> Pem(1, 8760), ca |-> Pem(0, 8760)],
                    [cert |-> Pem(1, 12), key |-> Pem(1, 12), ca |-> Pem(0, 8760)],
                    [cert |-> Garbage, key |-> Pem(1, 8760), ca |-> Pem(0, 8760)],
                    [cert |-> Pem(1, 8760), key |-> NoFile, ca |-> Pem(0, 8760)]}}
    \cup {[cfgFile |-> [exists |-> TRUE,
                        c |-> NewBootstrapConfig([ORG_ID |-> "org",
                                                  INSTALL_TOKEN |-> "tok"])],
           certs |-> NoCerts]}

StartEnvs == {[ORG_ID |-> "", INSTALL_TOKEN |-> ""],
              [ORG_ID |-> "org", INSTALL_TOKEN |-> "tok"]}

RunInit ==
    /\ rpc = "init"
    /\ boot0 \in StartDisks
    /\ cfgFile = boot0.cfgFile
    /\ certs = boot0.certs
    /\ env \in StartEnvs
    /\ cfg = NoConfig
    /\ bsKind = "none"
    /\ bsAttempt = 0
    /\ bsCalls = 0
    /\ lastStatus = 0
    /\ allAccepted = TRUE
    /\ runErr = "none"
    /\ needsRb = "unset"
    /\ started = {}

\* the buffer of a sender that has not been given work
BufIdle ==
    /\ files = EmptyDir
    /\ maxSize \in MaxSizes
    /\ currentSize = 0
    /\ clock = 2
    /\ written = <<>>
    /\ lastOp = NoOp(0)

InitRun ==
    /\ BufIdle
    /\ SenderIdle
    /\ ctxDone = FALSE
    /\ RunInit
    /\ AuxIdle

NextRun ==
    \/ RunLoad
    \/ RunCheck
    \/ \E status \in Statuses : BsCall(status)
    \/ \E out \in WriteOutcomes : BsSaveCertificate(out)
    \/ \E out \in WriteOutcomes : RunSaveConfig(out)
    \/ BsWaitElapsed
    \/ BsWaitCancelled
    \/ RunVerify
    \/ RunShutdown
    \/ Cancel

SpecRun == InitRun /\ [][NextRun]_vars

\* run() on a fresh machine next to a sender, both under the supervisor's
\* context
InitRetry ==
    /\ BufIdle
    /\ SenderIdle
    /\ ctxDone = FALSE
    /\ RunInit
    /\ AuxIdle
    /\ ~boot0.cfgFile.exists
    /\ env.INSTALL_TOKEN # ""

NextRetry ==
    \/ RunLoad
    \/ RunCheck
    \/ \E status \in Statuses : BsCall(status)
    \/ \E out \in WriteOutcomes : BsSaveCertificate(out)
    \/ \E out \in WriteOutcomes : RunSaveConfig(out)
    \/ BsWaitElapsed
    \/ BsWaitCancelled
    \/ Send
    \/ \E ok \in BOOLEAN : \E unreadable \in SUBSET DOMAIN files :
          PostLive(ok, unreadable)
    \/ BackoffElapsed
    \/ BackoffCancelled
    \/ \E ok \in BOOLEAN : \E failing \in SUBSET DOMAIN files :
          DrainStep(ok, failing)
    \/ Cancel

SpecRetry == InitRetry /\ [][NextRetry]_vars

(***************************************************************************)
(* The config store (package config) called directly.                      *)
(***************************************************************************)
\* encoding/json on a Config: "bootstrapped" is always written, a field
\* tagged omitempty only when it is not the zero value
JsonKeys(c) ==
    {"bootstrapped"}
    \cup (IF c.org_id # "" THEN {"org_id"} ELSE {})
    \cup (IF c.agent_id # "" THEN {"agent_id"} ELSE {})
    \cup (IF c.install_token # "" THEN {"install_token"} ELSE {})
    \cup (IF c.api_base_url # "" THEN {"api_base_url"} ELSE {})
    \cup (IF c.collection_interval # 0 THEN {"collection_interval"} ELSE {})
    \cup (IF c.batch_size # 0 THEN {"batch_size"} ELSE {})

MarshalIndent(c) == [keys |-> JsonKeys(c), vals |-> c]

\* json.Unmarshal into a zero Config: a key of the document sets its field
Unmarshal(d) ==
    [bootstrapped |-> IF "bootstrapped" \in d.keys
                      THEN d.vals.bootstrapped ELSE FALSE,
     org_id |-> IF "org_id" \in d.keys THEN d.vals.org_id ELSE "",
     agent_id |-> IF "agent_id" \in d.keys THEN d.vals.agent_id ELSE "",
     install_token |-> IF "install_token" \in d.keys
                       THEN d.vals.install_token ELSE "",
     api_base_url |-> IF "api_base_url" \in d.keys
                      THEN d.vals.api_base_url ELSE "",
     collection_interval |-> IF "collection_interval" \in d.keys
                             THEN d.vals.collection_interval ELSE 0,
     batch_size |-> IF "batch_size" \in d.keys THEN d.vals.batch_size ELSE 0]

\* Load(path): what it returns for the file f under the environment e
Load(f, e) ==
    IF f.state = "absent"
    THEN [ok |-> FALSE, err |-> "ErrConfigNotFound", c |-> NoConfig]
    ELSE IF f.state # "whole"
    THEN [ok |-> FALSE, err |-> "failed to parse config", c |-> NoConfig]
    ELSE [ok |-> TRUE, err |-> "", c |-> LoadOverlay(Unmarshal(f.doc), e)]

\* c.ValidateRuntime()
CfgValidateRuntime ==
    /\ savePc = "idle"
    /\ confOp' = [NoConfOp EXCEPT !.op = "ValidateRuntime",
                                  !.ok = ValidateRuntime(conf),
                                  !.before = conf, !.c = conf]
    /\ UNCHANGED <<progVars, moreVars, schVars, polVars, conf, confFile, savePc, saveArg>>

\* c.MarkBootstrapped(agentID, apiBaseURL)
CfgMarkBootstrapped(agentID, apiBaseURL) ==
    /\ savePc = "idle"
    /\ conf' = MarkBootstrapped(conf, agentID, apiBaseURL)
    /\ confOp' = [NoConfOp EXCEPT !.op = "MarkBootstrapped",
                                  !.before = conf,
                                  !.c = MarkBootstrapped(conf, agentID, apiBaseURL),
                                  !.agentID = agentID,
                                  !.apiBaseURL = apiBaseURL]
    /\ UNCHANGED <<progVars, moreVars, schVars, polVars, confFile, savePc, saveArg>>

\* c.Save(path) up to the open of os.WriteFile: the document is marshalled
\* and the file is opened with O_CREATE|O_TRUNC, which empties it
CfgSaveOpen ==
    /\ savePc = "idle"
    /\ savePc' = "opened"
    /\ saveArg' = conf
    /\ confFile' = [state |-> "empty", doc |-> NoDoc]
    /\ UNCHANGED <<progVars, moreVars, schVars, polVars, conf, confOp>>

\* the rest of os.WriteFile: the write puts the whole document into the
\* file, or fails after a part of it and Save returns the error
CfgSaveWrite(ok) ==
    /\ savePc = "opened"
    /\ savePc' = "idle"
    /\ confFile' = IF ok
                   THEN [state |-> "whole", doc |-> MarshalIndent(saveArg)]
                   ELSE [state |-> "partial", doc |-> NoDoc]
    /\ confOp' = [NoConfOp EXCEPT !.op = "Save", !.ok = ok,
                                  !.before = saveArg, !.c = saveArg]
    /\ UNCHANGED <<progVars, moreVars, schVars, polVars, conf, saveArg>>

\* the process dies inside os.WriteFile; the next process starts with
\* nothing in memory
CfgCrash ==
    /\ savePc = "opened"
    /\ savePc' = "idle"
    /\ conf' = NoConfig
    /\ confOp' = [NoConfOp EXCEPT !.op = "Crash", !.before = saveArg]
    /\ UNCHANGED <<progVars, moreVars, schVars, polVars, confFile, saveArg>>

\* cfg, err := Load(path), by this process or, while a Save is inside
\* os.WriteFile, by another one (savePc = "opened")
CfgLoad ==
    /\ confOp' = [NoConfOp EXCEPT !.op = "Load",
                                  !.ok = Load(confFile, env).ok,
                                  !.before = conf,
                                  !.c = Load(confFile, env).c]
    /\ conf' = IF savePc = "idle" /\ Load(confFile, env).ok
               THEN Load(confFile, env).c ELSE conf
    /\ UNCHANGED <<progVars, moreVars, schVars, polVars, confFile, savePc, saveArg>>

\* the configs the validators are tried on: every combination of set and
\* unset fields, with the interval and the batch size around their limits
Intervals == {0, 9, 10, 60}
BatchSizes == {0, 1, 100, 1000, 1001}
Configs ==
    [bootstrapped : BOOLEAN, org_id : {"", "org"}, agent_id : {"", "agent"},
     install_token : {"", "tok"}, api_base_url : {"", "api"},
     collection_interval : Intervals, batch_size : BatchSizes]
AgentIDs == {"agent", "agent-2"}
APIBaseURLs == {"api", "api-2"}

\* a caller holding any of these configs; nothing on disk
InitConfig ==
    /\ BufIdle
    /\ SenderIdle
    /\ ctxDone = FALSE
    /\ RunNotStarted
    /\ conf \in Configs
    /\ confFile = [state |-> "absent", doc |-> NoDoc]
    /\ savePc = "idle"
    /\ saveArg = NoConfig
    /\ confOp = NoConfOp
    /\ SchedIdle
    /\ PolIdle
    /\ MoreIdle

NextConfig ==
    \/ CfgValidateRuntime
    \/ \E a \in AgentIDs : \E u \in APIBaseURLs : CfgMarkBootstrapped(a, u)

SpecConfig == InitConfig /\ [][NextConfig]_vars

\* the environments and configs the store is tried with
StoreEnvs == [ORG_ID : {"", "org-2"}, INSTALL_TOKEN : {"", "tok-2"}]
StoreConfigs == {c \in Configs : c.collection_interval = 60 /\ c.batch_size = 100}

InitStore ==
    /\ BufIdle
    /\ SenderIdle
    /\ ctxDone = FALSE
    /\ RunOff
    /\ env \in StoreEnvs
    /\ conf \in StoreConfigs
    /\ confFile = [state |-> "absent", doc |-> NoDoc]
    /\ savePc = "idle"
    /\ saveArg = NoConfig
    /\ confOp = NoConfOp
    /\ SchedIdle
    /\ PolIdle
    /\ MoreIdle

NextStore ==
    \/ CfgSaveOpen
    \/ \E ok \in BOOLEAN : CfgSaveWrite(ok)
    \/ CfgCrash
    \/ CfgLoad
    \/ \E a \in {"agent"} : \E u \in {"api"} : CfgMarkBootstrapped(a, u)

SpecStore == InitStore /\ [][NextStore]_vars

(***************************************************************************)
(* scheduler.Scheduler                                                     *)
(***************************************************************************)
\* the goroutine of startCollectorJob as it begins: its ticker is new and it
\* runs the collector at once; bg: it was given context.Background()
Job(name, bg) == [name |-> name, pc |-> "collect", tick |-> FALSE, bg |-> bg]

\* startCollectorJob: s.wg.Add(1), go func()
startCollectorJob(js, name, bg) == js (+) SetToBag({Job(name, bg)})

\* Start's loop over s.collectors
RECURSIVE StartAll(_, _)
StartAll(list, js) ==
    IF list = <<>> THEN js
    ELSE StartAll(Tail(list), startCollectorJob(js, Head(list), FALSE))

\* one job goroutine moves on
MoveJob(js, j, j2) == (js (-) SetToBag({j})) (+) SetToBag({j2})

\* the runs of a collector that are in progress
Running(js, name) ==
    {j \in BagToSet(js) : j.name = name /\ j.pc = "collect"}
RECURSIVE SumCopies(_, _)
SumCopies(js, S) ==
    IF S = {} THEN 0
    ELSE LET j == CHOOSE x \in S : TRUE
         IN CopiesIn(j, js) + SumCopies(js, S \ {j})
RunsInProgress(js, name) == SumCopies(js, Running(js, name))

\* s.mu is free: no Stop is waiting under it, and the process is alive
MuFree == stopPc = "idle"

\* s.Start(ctx)
SchedStart ==
    /\ MuFree
    /\ ~schRunning
    /\ BagCardinality(jobs) + Len(schCollectors) <= MaxJobs
    /\ schRunning' = TRUE
    /\ jobs' = StartAll(schCollectors, jobs)
    /\ UNCHANGED <<progVars, moreVars, cfgVars, polVars, stopClosed, schCollectors,
                   stopPc, collectedOk>>

\* s.Stop() up to the select: close(s.stopCh), which panics on a channel
\* that is already closed, then wait for s.wg or 30 s under s.mu
SchedStop ==
    /\ MuFree
    /\ schRunning
    /\ IF stopClosed
       THEN /\ stopPc' = "panicked"
            /\ UNCHANGED stopClosed
       ELSE /\ stopClosed' = TRUE
            /\ stopPc' = "waiting"
    /\ UNCHANGED <<progVars, moreVars, cfgVars, polVars, schRunning, schCollectors,
                   jobs, collectedOk>>

\* Stop: s.wg.Wait() returned, done is closed
StopDone ==
    /\ stopPc = "waiting"
    /\ jobs = EmptyBag
    /\ stopPc' = "idle"
    /\ schRunning' = FALSE
    /\ UNCHANGED <<progVars, moreVars, cfgVars, polVars, stopClosed, schCollectors,
                   jobs, collectedOk>>

\* Stop: time.After(30 s) fired with jobs still live
StopTimeout ==
    /\ stopPc = "waiting"
    /\ jobs # EmptyBag
    /\ stopPc' = "idle"
    /\ schRunning' = FALSE
    /\ UNCHANGED <<progVars, moreVars, cfgVars, polVars, stopClosed, schCollectors,
                   jobs, collectedOk>>

\* s.AddCollector(collector)
SchedAddCollector(name) ==
    /\ MuFree
    /\ Len(schCollectors) < MaxCollectors
    /\ schRunning => BagCardinality(jobs) < MaxJobs
    /\ schCollectors' = Append(schCollectors, name)
    /\ jobs' = IF schRunning THEN startCollectorJob(jobs, name, TRUE) ELSE jobs
    /\ UNCHANGED <<progVars, moreVars, cfgVars, polVars, schRunning, stopClosed, stopPc,
                   collectedOk>>

\* a job's ticker fires (ticker.C holds at most one tick)
JobTick(j) ==
    /\ stopPc # "panicked"
    /\ j \in BagToSet(jobs)
    /\ ~j.tick
    /\ jobs' = MoveJob(jobs, j, [j EXCEPT !.tick = TRUE])
    /\ UNCHANGED <<progVars, moreVars, cfgVars, polVars, schRunning, stopClosed,
                   schCollectors, stopPc, collectedOk>>

\* runCollector: Collect returns (with data, or with an error or a timeout);
\* the outcome is logged and the job goes to its select
JobCollectReturn(j, ok) ==
    /\ stopPc # "panicked"
    /\ j \in BagToSet(jobs)
    /\ j.pc = "collect"
    /\ jobs' = MoveJob(jobs, j, [j EXCEPT !.pc = "select"])
    /\ collectedOk' = (collectedOk \/ ok)
    /\ UNCHANGED <<progVars, moreVars, cfgVars, polVars, schRunning, stopClosed,
                   schCollectors, stopPc>>

\* select: case <-ticker.C (chosen among the cases that are ready)
JobSelectTick(j) ==
    /\ stopPc # "panicked"
    /\ j \in BagToSet(jobs)
    /\ j.pc = "select"
    /\ j.tick
    /\ jobs' = MoveJob(jobs, j, [j EXCEPT !.pc = "collect", !.tick = FALSE])
    /\ UNCHANGED <<progVars, moreVars, cfgVars, polVars, schRunning, stopClosed,
                   schCollectors, stopPc, collectedOk>>

\* select: case <-s.stopCh; the goroutine returns (s.wg.Done)
JobSelectStop(j) ==
    /\ stopPc # "panicked"
    /\ j \in BagToSet(jobs)
    /\ j.pc = "select"
    /\ stopClosed
    /\ jobs' = jobs (-) SetToBag({j})
    /\ UNCHANGED <<progVars, moreVars, cfgVars, polVars, schRunning, stopClosed,
                   schCollectors, stopPc, collectedOk>>

\* select: case <-ctx.Done(); the goroutine returns (s.wg.Done)
JobSelectCtx(j) ==
    /\ stopPc # "panicked"
    /\ j \in BagToSet(jobs)
    /\ j.pc = "select"
    /\ ~j.bg
    /\ ctxDone
    /\ jobs' = jobs (-) SetToBag({j})
    /\ UNCHANGED <<progVars, moreVars, cfgVars, polVars, schRunning, stopClosed,
                   schCollectors, stopPc, collectedOk>>

\* a scheduler as scheduler.New returns it, next to an idle sender
InitScheduler ==
    /\ BufIdle
    /\ SenderIdle
    /\ ctxDone = FALSE
    /\ RunNotStarted
    /\ AuxIdle

NextScheduler ==
    \/ SchedStart
    \/ SchedStop
    \/ StopDone
    \/ StopTimeout
    \/ \E name \in CollectorNames : SchedAddCollector(name)
    \/ \E j \in BagToSet(jobs) : JobTick(j)
    \/ \E j \in BagToSet(jobs) : \E ok \in BOOLEAN : JobCollectReturn(j, ok)
    \/ \E j \in BagToSet(jobs) : JobSelectTick(j)
    \/ \E j \in BagToSet(jobs) : JobSelectStop(j)
    \/ \E j \in BagToSet(jobs) : JobSelectCtx(j)
    \/ Cancel

SpecScheduler == InitScheduler /\ [][NextScheduler]_vars

(***************************************************************************)
(* policy.Engine                                                           *)
(***************************************************************************)
\* the policies the server answers GET /api/v1/policy with: one disables
\* the cpu collector and sets no intervals, one does not list disk
ServerPolicies ==
    {[version |-> 2,
      collectors |-> [cpu |-> CollectorPolicy(FALSE, 0),
                      disk |-> CollectorPolicy(TRUE, 0)]],
     [version |-> 3,
      collectors |-> [cpu |-> CollectorPolicy(TRUE, 30)]]}

\* e.IsCollectorEnabled(name), p being *e.current
IsCollectorEnabled(pol, name) ==
    IF name \in DOMAIN pol.collectors THEN pol.collectors[name].enabled
    ELSE FALSE

\* e.GetCollectorInterval(name), p being *e.current
GetCollectorInterval(pol, name, collectionInterval) ==
    IF name \in DOMAIN pol.collectors /\ pol.collectors[name].interval > 0
    THEN pol.collectors[name].interval
    ELSE collectionInterval

\* Refresh up to the decode: the response is decoded into a new Policy
\* object; a failed request or decode returns the error
RefreshFetch(pol, ok) ==
    /\ refreshPc = "idle"
    /\ Len(polHeap) <= MaxRefresh
    /\ IF ok
       THEN /\ polHeap' = Append(polHeap, pol)
            /\ newPolicy' = Len(polHeap) + 1
            /\ refreshPc' = "decoded"
       ELSE UNCHANGED <<polHeap, newPolicy, refreshPc>>
    /\ UNCHANGED <<progVars, moreVars, cfgVars, schVars, polCurrent, polMu, rd>>

\* Refresh: e.mu.Lock()
RefreshLock ==
    /\ refreshPc = "decoded"
    /\ ~polMu.w
    /\ polMu.r = 0
    /\ polMu' = [polMu EXCEPT !.w = TRUE]
    /\ refreshPc' = "locked"
    /\ UNCHANGED <<progVars, moreVars, cfgVars, schVars, polHeap, polCurrent, newPolicy,
                   rd>>

\* a Refresh that copies the new policy over the current object
RefreshSwapInPlace ==
    /\ refreshPc = "locked"
    /\ polHeap' = [polHeap EXCEPT ![polCurrent] = polHeap[newPolicy]]
    /\ polMu' = [polMu EXCEPT !.w = FALSE]
    /\ refreshPc' = "idle"
    /\ UNCHANGED <<progVars, moreVars, cfgVars, schVars, polCurrent, newPolicy, rd>>

\* Refresh: e.current = &newPolicy; e.mu.Unlock()
RefreshSwap ==
    /\ refreshPc = "locked"
    /\ polCurrent' = newPolicy
    /\ polMu' = [polMu EXCEPT !.w = FALSE]
    /\ refreshPc' = "idle"
    /\ UNCHANGED <<progVars, moreVars, cfgVars, schVars, polHeap, newPolicy, rd>>

ReaderOps == {"Get", "IsCollectorEnabled", "GetCollectorInterval"}

\* a reader enters Get, IsCollectorEnabled or GetCollectorInterval:
\* e.mu.RLock()
RdLock(op, name) ==
    /\ rd.pc = "idle"
    /\ ~polMu.w
    /\ polMu' = [polMu EXCEPT !.r = polMu.r + 1]
    /\ rd' = [NoReader EXCEPT !.pc = "rlocked", !.op = op, !.name = name,
                              !.cur = polCurrent]
    /\ UNCHANGED <<progVars, moreVars, cfgVars, schVars, polHeap, polCurrent, refreshPc,
                   newPolicy>>

\* the reader's call reads e.current, unlocks and returns; Get returns the
\* pointer
RdReturn ==
    /\ rd.pc = "rlocked"
    /\ polMu' = [polMu EXCEPT !.r = polMu.r - 1]
    /\ rd' = IF rd.op = "Get"
             THEN [rd EXCEPT !.pc = "holding", !.snap = polCurrent,
                             !.copy = polHeap[polCurrent]]
             ELSE [rd EXCEPT !.pc = "returned", !.snap = polCurrent,
                             !.enabled = IsCollectorEnabled(polHeap[polCurrent],
                                                            rd.name),
                             !.interval = GetCollectorInterval(
                                 polHeap[polCurrent], rd.name,
                                 SavedConfig.collection_interval)]
    /\ UNCHANGED <<progVars, moreVars, cfgVars, schVars, polHeap, polCurrent, refreshPc,
                   newPolicy>>

\* the caller of Get reads the snapshot's Version
RdReadVersion ==
    /\ rd.pc = "holding"
    /\ rd' = [rd EXCEPT !.pc = "half", !.version = polHeap[rd.snap].version]
    /\ UNCHANGED <<progVars, moreVars, cfgVars, schVars, polHeap, polCurrent, polMu,
                   refreshPc, newPolicy>>

\* and, later, the snapshot's Collectors
RdReadCollectors ==
    /\ rd.pc = "half"
    /\ rd' = [rd EXCEPT !.pc = "used",
                        !.collectors = polHeap[rd.snap].collectors]
    /\ UNCHANGED <<progVars, moreVars, cfgVars, schVars, polHeap, polCurrent, polMu,
                   refreshPc, newPolicy>>

\* the reader is done with what it got
RdDone ==
    /\ rd.pc \in {"used", "returned"}
    /\ rd' = NoReader
    /\ UNCHANGED <<progVars, moreVars, cfgVars, schVars, polHeap, polCurrent, polMu,
                   refreshPc, newPolicy>>

\* the engine with its refresher (run(), step 14) and a reader
NextPolicy ==
    \/ \E pol \in ServerPolicies : \E ok \in BOOLEAN : RefreshFetch(pol, ok)
    \/ RefreshLock
    \/ RefreshSwap
    \/ \E op \in ReaderOps : \E name \in CollectorNames : RdLock(op, name)
    \/ RdReturn
    \/ RdReadVersion
    \/ RdReadCollectors
    \/ RdDone

SpecPolicy == InitScheduler /\ [][NextPolicy]_vars

\* the scheduler started by run() (step 13) next to the policy refresh of
\* the run loop (step 14)
NextSchedPolicy ==
    \/ SchedStart
    \/ \E j \in BagToSet(jobs) : JobTick(j)
    \/ \E j \in BagToSet(jobs) : \E ok \in BOOLEAN : JobCollectReturn(j, ok)
    \/ \E j \in BagToSet(jobs) : JobSelectTick(j)
    \/ \E pol \in ServerPolicies : \E ok \in BOOLEAN : RefreshFetch(pol, ok)
    \/ RefreshLock
    \/ RefreshSwap

SpecSchedPolicy == InitScheduler /\ [][NextSchedPolicy]_vars

(***************************************************************************)
(* logging.AuditLogger: LogEvent, called by concurrent goroutines.         *)
(***************************************************************************)
notAudVars == <<progVars, cfgVars, schVars, polVars, logVars, updVars, waits>>

\* the events whose LogEvent has returned nil
Returned(log) == {e \in DOMAIN log : log[e].res = "ok"}

\* a goroutine calls LogEvent with the next event
AudCall(t) ==
    /\ audCalls[t].pc = "idle"
    /\ Len(audLog) < MaxEvents
    /\ audLog' = Append(audLog, [pred |-> Returned(audLog), res |-> "running"])
    /\ audCalls' = [audCalls EXCEPT ![t] = [pc |-> "called", ev |-> Len(audLog) + 1]]
    /\ UNCHANGED <<audFile, audSynced, audMu, notAudVars>>

\* a.mu.Lock()
AudLock(t) ==
    /\ audCalls[t].pc = "called"
    /\ audMu = 0
    /\ audMu' = t
    /\ audCalls' = [audCalls EXCEPT ![t].pc = "locked"]
    /\ UNCHANGED <<audFile, audSynced, audLog, notAudVars>>

\* the deferred a.mu.Unlock() and the return of err
AudReturn(t, res) ==
    /\ audMu' = 0
    /\ audLog' = [audLog EXCEPT ![audCalls[t].ev].res = res]
    /\ audCalls' = [audCalls EXCEPT ![t] = [pc |-> "idle", ev |-> 0]]

\* json.Marshal(event) fails: nothing is written
AudMarshalFails(t) ==
    /\ audCalls[t].pc = "locked"
    /\ AudReturn(t, "err")
    /\ UNCHANGED <<audFile, audSynced, notAudVars>>

\* a.file.Write(append(data, '\n')): one write of the whole line to a file
\* opened with O_APPEND; a failed write leaves nothing or a piece of it
AudWrite(t, out) ==
    /\ audCalls[t].pc = "locked"
    /\ CASE out = "ok" ->
              /\ audFile' = Append(audFile, [ev |-> audCalls[t].ev, whole |-> TRUE])
              /\ audCalls' = [audCalls EXCEPT ![t].pc = "written"]
              /\ UNCHANGED <<audMu, audLog>>
         [] out = "short" ->
              /\ audFile' = Append(audFile, [ev |-> audCalls[t].ev, whole |-> FALSE])
              /\ AudReturn(t, "err")
         [] out = "none" ->
              /\ audFile' = audFile
              /\ AudReturn(t, "err")
    /\ UNCHANGED <<audSynced, notAudVars>>

\* a.file.Sync() fails: LogEvent returns its error, the line is not on disk
AudSyncFails(t) ==
    /\ audCalls[t].pc = "written"
    /\ AudReturn(t, "err")
    /\ UNCHANGED <<audFile, audSynced, notAudVars>>

\* a LogEvent that returns nil after the write, without the sync
LogEventReturnsUnsynced(t) ==
    /\ audCalls[t].pc = "written"
    /\ AudReturn(t, "ok")
    /\ UNCHANGED <<audFile, audSynced, notAudVars>>

\* return a.file.Sync(), the sync succeeding
AudSync(t) ==
    /\ audCalls[t].pc = "written"
    /\ audSynced' = Len(audFile)
    /\ AudReturn(t, "ok")
    /\ UNCHANGED <<audFile, notAudVars>>

\* the machine loses power: the lines that were synced stay, of the others
\* any number of the first, the last of them possibly torn; the process and
\* its goroutines are gone
AudCrash ==
    /\ \E t \in AudCallers : audCalls[t].pc # "dead"
    /\ \E n \in audSynced..Len(audFile) : \E torn \in BOOLEAN :
          audFile' = [i \in 1..n |->
                        IF i = n /\ n > audSynced /\ torn
                        THEN [audFile[i] EXCEPT !.whole = FALSE]
                        ELSE audFile[i]]
    /\ audCalls' = [t \in AudCallers |-> [pc |-> "dead", ev |-> 0]]
    /\ audMu' = 0
    /\ UNCHANGED <<audSynced, audLog, notAudVars>>

InitAudit ==
    /\ BufIdle
    /\ SenderIdle
    /\ ctxDone = FALSE
    /\ RunNotStarted
    /\ AuxIdle

NextAudit ==
    \/ \E t \in AudCallers : AudCall(t)
    \/ \E t \in AudCallers : AudLock(t)
    \/ \E t \in AudCallers : AudMarshalFails(t)
    \/ \E t \in AudCallers : \E out \in {"ok", "short", "none"} : AudWrite(t, out)
    \/ \E t \in AudCallers : AudSync(t)
    \/ \E t \in AudCallers : AudSyncFails(t)
    \/ AudCrash

SpecAudit == InitAudit /\ [][NextAudit]_vars

(***************************************************************************)
(* logging.Logger: log and rotate, called by concurrent goroutines.        *)
(***************************************************************************)
notLogVars == <<files, currentSize, maxSize, written, lastOp, sndVars,
                ctxDone, runVars, cfgVars, schVars, polVars, audVars, updVars,
                waits>>

\* the lengths of the log lines tried, in units of the size limit
LineSizes == {1, 2}

\* a goroutine calls Debug/Info/Warning...: log's first statement compares
\* the level with l.level and returns at once for a lower one
LogCall(t, level, size) ==
    /\ lw[t].pc \in {"idle", "dropped"}
    /\ logSeq < MaxLogWrites
    /\ lw' = [lw EXCEPT ![t] =
                [pc |-> IF level < lg.level THEN "dropped" ELSE "called",
                 level |-> level, size |-> size, t0 |-> clock]]
    /\ lw[t] # lw'[t]
    /\ UNCHANGED <<lg, logMu, logFiles, logSeq, clock, notLogVars>>

\* os.Rename(path.i, path.j): replaces path.j; an error (no path.i) is ignored
Rename(fs, i, j) ==
    IF i \in DOMAIN fs
    THEN [k \in (DOMAIN fs \ {i}) \cup {j} |-> IF k = j THEN fs[i] ELSE fs[k]]
    ELSE fs

\* the loop of rotate: for i := l.maxBackups - 1; i >= 1; i--
RECURSIVE ShiftBackups(_, _)
ShiftBackups(fs, i) ==
    IF i >= 1 THEN ShiftBackups(Rename(fs, i, i + 1), i - 1) ELSE fs

\* rotate, up to its call of l.Info: the backups move up, the current file
\* becomes path.1 and a new current file is created
rotate(fs, backups) ==
    LET moved == Rename(ShiftBackups(fs, backups - 1), 0, 1)
    IN  [k \in DOMAIN moved \cup {0} |-> IF k = 0 THEN <<>> ELSE moved[k]]

\* a log that reads the time before it takes the lock
StampAtCall(t0, now) == t0
\* the time a line carries: log reads time.Now() after it has the lock
Stamp(t0, now) == now

\* the rest of log, under l.mu: the line is written, the size updated and,
\* at the limit, the file rotated; rotate ends with l.Info("Log file
\* rotated"), which returns at once if INFO is below l.level and otherwise
\* locks l.mu, which this goroutine holds
LogWrite(t) ==
    LET line == [id |-> logSeq + 1, ts |-> Stamp(lw[t].t0, clock),
                 size |-> lw[t].size]
        wrote == [logFiles EXCEPT ![0] = Append(@, line)]
        size == lg.currentSize + line.size
    IN  /\ lw[t].pc = "called"
        /\ logMu = 0
        /\ logSeq' = logSeq + 1
        /\ IF size >= lg.maxSize
           THEN /\ logFiles' = rotate(wrote, lg.maxBackups)
                /\ lg' = [lg EXCEPT !.currentSize = 0]
                /\ IF INFO < lg.level
                   THEN /\ lw' = [lw EXCEPT ![t].pc = "idle"]
                        /\ logMu' = 0
                   ELSE /\ lw' = [lw EXCEPT ![t].pc = "deadlocked"]
                        /\ logMu' = t
           ELSE /\ logFiles' = wrote
                /\ lg' = [lg EXCEPT !.currentSize = size]
                /\ lw' = [lw EXCEPT ![t].pc = "idle"]
                /\ logMu' = 0
        /\ UNCHANGED <<clock, notLogVars>>

\* the wall clock advances while the logger is in use
LogTick ==
    /\ clock < MaxClock
    /\ clock' = clock + 1
    /\ UNCHANGED <<logVars, notLogVars>>

\* the loggers tried: level, size limit and number of backups
LogLevels == {INFO, WARNING}
LogMaxSizes == {2, 3}
LogMaxBackups == {0, 1, 2}

InitLogger ==
    /\ BufIdle
    /\ SenderIdle
    /\ ctxDone = FALSE
    /\ RunNotStarted
    /\ ConfIdle
    /\ SchedIdle
    /\ PolIdle
    /\ AudIdle
    /\ UpdIdle
    /\ waits = <<>>
    /\ \E level \in LogLevels : \E max \in LogMaxSizes :
       \E backups \in LogMaxBackups : NewLogger(level, max, backups)

NextLogger ==
    \/ \E t \in LogWriters : \E level \in LogLevels : \E size \in LineSizes :
          LogCall(t, level, size)
    \/ \E t \in LogWriters : LogWrite(t)
    \/ LogTick

SpecLogger == InitLogger /\ [][NextLogger]_vars

(***************************************************************************)
(* updater.Updater: PerformUpdate and the steps it calls.                  *)
(***************************************************************************)
notUpdVars == <<progVars, cfgVars, schVars, polVars, audVars, logVars, waits>>

\* the files a download can produce, and their SHA-256 in hex
Binaries == {"v2", "v2-tampered"}
Sha256Hex(b) ==
    CASE b = "v1" -> "h1"
      [] b = "v2" -> "h2"
      [] b = "v2-tampered" -> "h3"

\* the metadata documents the server can answer with
Metadatas == [checksum : {"h2", "h3"}, signature : {"good", "bad"}]

OSes == {"windows", "darwin", "linux", "freebsd"}

\* PerformUpdate is called
UpdStart ==
    /\ upc \in {"idle", "done"}
    /\ updHist.runs < MaxUpdates
    /\ upc' = "check"
    /\ meta' = NoMeta
    /\ updHist' = [NoUpdHist EXCEPT !.exe0 = exe, !.runs = updHist.runs + 1]
    /\ UNCHANGED <<goos, tmpFile, exe, notUpdVars>>

\* CheckForUpdate: 204 is "no update", 200 carries the metadata, anything
\* else (500 here) and a transport failure (0) are errors
UpdCheck(status, m) ==
    /\ upc = "check"
    /\ updHist' = [updHist EXCEPT !.status = status]
    /\ IF status = 200
       THEN /\ meta' = m
            /\ upc' = "download"
       ELSE /\ meta' = NoMeta
            /\ upc' = "done"
    /\ UNCHANGED <<goos, tmpFile, exe, notUpdVars>>

\* DownloadUpdate: the body is copied to the temporary file; on an error
\* the file is removed and PerformUpdate returns
UpdDownload(ok, b) ==
    /\ upc = "download"
    /\ updHist' = [updHist EXCEPT !.downloaded = TRUE]
    /\ IF ok
       THEN /\ tmpFile' = b
            /\ upc' = "verify"
       ELSE /\ tmpFile' = "none"
            /\ upc' = "done"
    /\ UNCHANGED <<goos, meta, exe, notUpdVars>>

\* verifySignature: nil on the three supported systems, whatever the file
\* and its signature are; an error elsewhere
verifySignature(os) ==
    IF os \in {"windows", "darwin", "linux"} THEN "ok" ELSE "signature"

\* a VerifyUpdate that does not compare the checksum
VerifyUpdateNoChecksum(file, m, os) == verifySignature(os)
\* VerifyUpdate: the checksum first, then the signature
VerifyUpdate(file, m, os) ==
    IF Sha256Hex(file) # m.checksum THEN "checksum" ELSE verifySignature(os)

\* PerformUpdate calls VerifyUpdate; on an error it returns, the deferred
\* os.Remove(tmpFile) deleting the download
UpdVerify ==
    LET res == VerifyUpdate(tmpFile, meta, goos)
    IN  /\ upc = "verify"
        /\ updHist' = [updHist EXCEPT !.verify = res]
        /\ IF res = "ok"
           THEN /\ upc' = "install"
                /\ tmpFile' = tmpFile
           ELSE /\ upc' = "done"
                /\ tmpFile' = "none"
        /\ UNCHANGED <<goos, meta, exe, notUpdVars>>

\* InstallUpdate: rename current to current.old, rename the download to
\* current, and put the backup back if that fails; then PerformUpdate
\* returns (its deferred os.Remove finds the file or not)
UpdInstall(out) ==
    /\ upc = "install"
    /\ updHist' = [updHist EXCEPT !.installCalled = TRUE]
    /\ exe' = CASE out = "ok" -> [cur |-> tmpFile, old |-> exe.cur]
                [] out = "backupFails" -> exe
                [] out = "moveFails" -> exe
                [] out = "rollbackFails" -> [cur |-> "missing", old |-> exe.cur]
    /\ tmpFile' = "none"
    /\ upc' = "done"
    /\ UNCHANGED <<goos, meta, notUpdVars>>

InitUpdater ==
    /\ BufIdle
    /\ SenderIdle
    /\ ctxDone = FALSE
    /\ RunNotStarted
    /\ ConfIdle
    /\ SchedIdle
    /\ PolIdle
    /\ AudIdle
    /\ LogIdle
    /\ waits = <<>>
    /\ \E os \in OSes : NewUpdater(os)

NextUpdater ==
    \/ UpdStart
    \/ \E status \in {200, 204, 500, 0} : \E m \in Metadatas : UpdCheck(status, m)
    \/ \E ok \in BOOLEAN : \E b \in Binaries : UpdDownload(ok, b)
    \/ UpdVerify
    \/ \E out \in {"ok", "backupFails", "moveFails", "rollbackFails"} : UpdInstall(out)

SpecUpdater == InitUpdater /\ [][NextUpdater]_vars

(***************************************************************************)
(* Claims about the buffer.                                                *)
(***************************************************************************)
\* C1: whenever a Write or a Prune returns without error, the buffer's size
\* is at most max_buffer_bytes.
C1_SizeWithinLimit ==
    (lastOp.op \in {"Write", "Prune"} /\ lastOp.ok) => currentSize <= maxSize

\* C2: a Write whose record would take the size over max_buffer_bytes (in
\* particular a record larger than the limit) returns an error and leaves
\* the directory and Size() as they were.
C2_RefusedWriteChangesNothing ==
    [][(/\ lastOp'.op = "Write"
        /\ lastOp'.before + JsonLen(lastOp'.batch) > maxSize')
       => (/\ ~lastOp'.ok
           /\ files' = files
           /\ currentSize' = currentSize)]_vars

\* a Write was refused by a buffer that holds files
C2_Witness ==
    /\ lastOp.op = "Write"
    /\ ~lastOp.ok
    /\ DOMAIN files # {}
    /\ currentSize = lastOp.before

\* C3: every successful Write since the last Clear is visible to ReadAll (n
\* Writes give n batches), and after Clear ReadAll is empty and Size() is 0.
C3_WrittenStaysVisible ==
    /\ \A i \in 1..Len(written) :
          /\ written[i].name \in DOMAIN files
          /\ files[written[i].name].data = written[i].data
    /\ Cardinality({written[i].name : i \in 1..Len(written)}) = Len(written)
    /\ Len(ReadAll(files)) >= Len(written)
    /\ lastOp.op = "Clear" => (Len(ReadAll(files)) = 0 /\ currentSize = 0)

(***************************************************************************)
(* Claims about the sender.                                                *)
(***************************************************************************)
\* C4: when every send attempt for a batch has failed, flush gets the batch
\* into the persistent buffer, pruning the oldest entries and retrying the
\* write when the buffer is full.
C4_TerminalFailureIsBuffered ==
    [][(/\ spc \in {"post", "backoff"}
        /\ spc' = "idle"
        /\ retryErr' = "exhausted"
        /\ lastFlush'.result \in {"buffered", "buffer_failed"}
        /\ JsonLen(combined) <= maxSize)
       => \E n \in DOMAIN files' : files'[n].data = combined]_vars

\* C5: a call of Send never waits for a telemetry POST to complete or for a
\* retry back-off timer to elapse.
C5_SendNeverBlocks ==
    ~(caller = "Send" /\ spc \in {"post", "backoff", "drain"})

\* C6: the pending queue is emptied only in the step in which the server
\* accepts the live POST of that queue, and that step goes on to the drain
\* of the persistent buffer (flushBuffer reads the buffer).
C6_QueueClearedOnAcceptance ==
    [][/\ (queue # <<>> /\ queue' = <<>>)
          => /\ spc = "post"
             /\ lastPost' = [batch |-> queue, ok |-> TRUE, kind |-> "live"]
             /\ lastOp'.op = "ReadAll"
             /\ \/ /\ spc' = "drain"
                   /\ drain' = ReadAll(Readable(files, lastOp'.skipped))
                \/ /\ spc' = "idle"
                   /\ ReadAll(Readable(files, lastOp'.skipped)) = <<>>
       /\ (spc = "post" /\ spc' \in {"idle", "drain"} /\ lastPost'.ok)
          => queue' = <<>>]_vars

\* the live send succeeded, the queue is empty and the drain is under way
C6_Witness ==
    /\ spc = "drain"
    /\ queue = <<>>
    /\ lastPost = [batch |-> combined, ok |-> TRUE, kind |-> "live"]
    /\ drain = ReadAll(files)
    /\ drain # <<>>

(***************************************************************************)
(* Claims about the retry loops and the supervisor.                        *)
(***************************************************************************)
\* C7: once the context is cancelled, a retry loop that is waiting between
\* attempts leaves the wait without another attempt and returns the
\* cancellation error (RetryWithBackoff and sendWithRetry).
C7_CancelledWaitReturnsCancellation ==
    [][/\ (rpc = "bs_wait" /\ ctxDone /\ rpc' # rpc)
          => /\ rpc' = "exit_err"
             /\ runErr' = "retry cancelled"
             /\ bsCalls' = bsCalls
             /\ lastStatus' = lastStatus
       /\ (spc = "backoff" /\ ctxDone /\ spc' # spc)
          => /\ spc' = "idle"
             /\ retryErr' = "cancelled"
             /\ lastPost' = lastPost]_vars

\* both loops were cancelled in their wait, each after a failed attempt
C7_Witness ==
    /\ ctxDone
    /\ rpc = "exit_err"
    /\ runErr = "retry cancelled"
    /\ lastStatus \in {0, 401, 429, 503}
    /\ bsCalls >= 1
    /\ retryErr = "cancelled"
    /\ ~lastPost.ok
    /\ lastPost.kind = "live"

\* C8: a bootstrap response with a 4xx status other than 408 or 429 is not
\* retried: the error is surfaced at once and run() exits with it.
C8_PermanentErrorNotRetried ==
    (lastStatus >= 400 /\ lastStatus < 500 /\ lastStatus \notin {408, 429})
    => (rpc = "exit_err" /\ bsCalls = 1)

\* the machine held no config and no triple when the agent started
FreshInstall ==
    /\ ~boot0.cfgFile.exists
    /\ boot0.certs = NoCerts
    /\ env.ORG_ID # ""
    /\ env.INSTALL_TOKEN # ""

\* run() ended because a write of the triple or of the config failed
DiskWriteFailed ==
    runErr \in {"failed to save certificates", "failed to save config"}

\* C9: on a fresh install with credentials that the server accepts (and a
\* disk that takes the writes), run() bootstraps once and goes on to the run
\* loop without returning an error.
C9_FreshInstallRuns ==
    (FreshInstall /\ allAccepted /\ ~ctxDone /\ ~DiskWriteFailed)
    => (rpc # "exit_err" /\ bsCalls <= 1)

\* the machine held a bootstrapped config and a complete, matching triple
\* whose certificate expires more than 24 hours from now
ValidRestart ==
    /\ boot0.cfgFile.exists
    /\ boot0.cfgFile.c.bootstrapped
    /\ X509KeyPair(boot0.certs.cert, boot0.certs.key)
    /\ boot0.certs.ca.state = "pem"
    /\ boot0.certs.cert.notAfter > 24

\* C10: a restart over a valid persisted identity finds NeedsRebootstrap
\* false and makes no call to the bootstrap endpoint.
C10_RestartReusesIdentity ==
    (ValidRestart /\ needsRb # "unset")
    => (needsRb = "false" /\ bsCalls = 0 /\ rpc # "exit_err")

\* the machine held a bootstrapped config whose install token is cleared
\* and a matching triple whose certificate expires within 24 hours
NearExpiryRestart ==
    /\ boot0.cfgFile.exists
    /\ boot0.cfgFile.c.bootstrapped
    /\ boot0.cfgFile.c.install_token = ""
    /\ X509KeyPair(boot0.certs.cert, boot0.certs.key)
    /\ boot0.certs.ca.state = "pem"
    /\ boot0.certs.cert.notAfter < 24

\* C11: on a restart with a certificate less than 24 hours from expiry
\* NeedsRebootstrap is true, one bootstrap request is made with the retained
\* org_id, and the new triple has replaced the old one by the time run()
\* goes past the re-bootstrap step (the server accepting the request).
C11_NearExpiryRebootstraps ==
    (/\ NearExpiryRestart
     /\ allAccepted
     /\ ~ctxDone
     /\ ~DiskWriteFailed
     /\ rpc \in {"verify", "run_loop", "exit_err"})
    => (/\ needsRb = "true"
        /\ bsCalls = 1
        /\ certs = IssuedCerts
        /\ rpc # "exit_err")

(***************************************************************************)
(* Claims about the config store.                                          *)
(***************************************************************************)
\* the conditions the runtime validity of a config is stated with
ListedRuntimeConditions(c) ==
    /\ c.bootstrapped
    /\ c.agent_id # ""
    /\ c.api_base_url # ""
    /\ c.collection_interval >= 10
    /\ c.batch_size >= 1
    /\ c.batch_size <= 1000

\* C12 as stated: ValidateRuntime succeeds only under the listed conditions;
\* with the listed conditions met it accepts batch sizes 1 and 1000 and an
\* interval of 10 s; it rejects batch sizes 0 and 1001 and an interval of 9 s.
C12_ListedConditionsDecide ==
    confOp.op = "ValidateRuntime"
    => LET c == confOp.before
       IN /\ confOp.ok => ListedRuntimeConditions(c)
          /\ (/\ ListedRuntimeConditions(c)
              /\ \/ c.batch_size \in {1, 1000}
                 \/ c.collection_interval = 10)
             => confOp.ok
          /\ c.batch_size \in {0, 1001} => ~confOp.ok
          /\ c.collection_interval = 9 => ~confOp.ok

\* C12: ValidateRuntime succeeds only under the listed conditions; with the
\* listed conditions met and org_id non-empty it accepts batch sizes 1 and
\* 1000 and an interval of 10 s; it rejects batch sizes 0 and 1001 and an
\* interval of 9 s.
C12_ValidateRuntimeBounds ==
    confOp.op = "ValidateRuntime"
    => LET c == confOp.before
       IN /\ confOp.ok => ListedRuntimeConditions(c)
          /\ (/\ ListedRuntimeConditions(c)
              /\ c.org_id # ""
              /\ \/ c.batch_size \in {1, 1000}
                 \/ c.collection_interval = 10)
             => confOp.ok
          /\ c.batch_size \in {0, 1001} => ~confOp.ok
          /\ c.collection_interval = 9 => ~confOp.ok

\* a config at both limits (10 s, 1000 records) was accepted
C12_Witness ==
    /\ confOp.op = "ValidateRuntime"
    /\ confOp.ok
    /\ confOp.before.collection_interval = 10
    /\ confOp.before.batch_size = 1000

\* C13: after MarkBootstrapped(agent_id, api_base_url) the config is
\* bootstrapped, its install token is empty, agent_id and api_base_url are
\* the arguments, and every other field is what it was.
C13_MarkBootstrappedSetsRuntimeFields ==
    confOp.op = "MarkBootstrapped"
    => /\ conf.bootstrapped
       /\ conf.install_token = ""
       /\ conf.agent_id = confOp.agentID
       /\ conf.api_base_url = confOp.apiBaseURL
       /\ conf.org_id = confOp.before.org_id
       /\ conf.collection_interval = confOp.before.collection_interval
       /\ conf.batch_size = confOp.before.batch_size

\* a bootstrap config with a token and another agent id was marked
C13_Witness ==
    /\ confOp.op = "MarkBootstrapped"
    /\ ~confOp.before.bootstrapped
    /\ confOp.before.install_token # ""
    /\ confOp.before.agent_id \notin {"", confOp.agentID}
    /\ confOp.before.org_id # ""
    /\ conf.agent_id = confOp.agentID

\* a Load that read the file a completed Save of a valid config wrote
LoadAfterSave ==
    /\ confOp.op = "Load"
    /\ savePc = "idle"
    /\ confFile.state = "whole"
    /\ ValidateBootstrap(saveArg) \/ ValidateRuntime(saveArg)

\* C14 as stated: whatever ORG_ID and INSTALL_TOKEN are, Save(c) followed by
\* Load returns a config equal to c.
C14_RoundTripAnyEnv ==
    LoadAfterSave => (confOp.ok /\ confOp.c = saveArg)

\* C14: Save(c) followed by Load returns c with an empty org_id or
\* install_token replaced by the value of ORG_ID or INSTALL_TOKEN; the
\* result equals c when neither replacement applies.
C14_RoundTripUpToOverlay ==
    LoadAfterSave
    => /\ confOp.ok
       /\ confOp.c = [saveArg EXCEPT
             !.org_id = IF saveArg.org_id = "" THEN env.ORG_ID
                        ELSE saveArg.org_id,
             !.install_token = IF saveArg.install_token = ""
                               THEN env.INSTALL_TOKEN
                               ELSE saveArg.install_token]
       /\ (/\ saveArg.org_id # "" \/ env.ORG_ID = ""
           /\ saveArg.install_token # "" \/ env.INSTALL_TOKEN = "")
          => confOp.c = saveArg

\* a bootstrapped config (token cleared) was saved and loaded with both
\* variables set: the token came from the environment, org_id from the file
C14_Witness ==
    /\ LoadAfterSave
    /\ ValidateRuntime(saveArg)
    /\ env.ORG_ID # ""
    /\ env.INSTALL_TOKEN # ""
    /\ saveArg.install_token = ""
    /\ confOp.c.install_token = env.INSTALL_TOKEN
    /\ confOp.c.org_id = saveArg.org_id
    /\ confOp.c.org_id # env.ORG_ID

\* C15: at every instant the file at the config path is absent (never yet
\* saved) or holds a complete config, never an empty or partly written one.
C15_SaveIsAtomic ==
    confFile.state \in {"absent", "whole"}

(***************************************************************************)
(* Claims about the scheduler and the policy engine.                       *)
(***************************************************************************)
\* C16: whatever Start, Stop and AddCollector calls were made, at most one
\* run of any one collector is in progress at any time.
C16_OneRunPerCollector ==
    \A name \in CollectorNames : RunsInProgress(jobs, name) <= 1

\* C17: Stop on a running scheduler closes the stop channel and returns (it
\* does not panic), and once the channel is closed no collector job starts
\* a new run.
C17_StopEndsRuns ==
    [][/\ stopPc' # "panicked"
       /\ stopClosed
          => \A name \in CollectorNames :
                RunsInProgress(jobs', name) <= RunsInProgress(jobs, name)]_vars

\* C18: once a collector run has succeeded, its result has been handed to
\* the sender: it is in the queue, in a flush, posted or in the buffer.
C18_ResultReachesPipeline ==
    collectedOk
    => \/ queue # <<>>
       \/ spc # "idle"
       \/ lastPost.kind # "none"
       \/ lastFlush.result # "none"
       \/ DOMAIN files # {}

\* C19: a job starts a run of a collector only when the current policy has
\* the collector enabled, also after a refresh changed the policy.
C19_DisabledCollectorsNotRun ==
    [][\A name \in CollectorNames :
          RunsInProgress(jobs', name) > RunsInProgress(jobs, name)
          => IsCollectorEnabled(polHeap[polCurrent], name)]_vars

\* every policy that was ever published
Published == {defaultPolicy} \cup ServerPolicies

\* C20: what a reader reads from a snapshot, in steps, is one whole
\* published policy; a snapshot returned by Get keeps its contents over
\* later swaps; and IsCollectorEnabled and GetCollectorInterval answer from
\* the policy that was current when they took the lock.
C20_ReadersSeeWholePolicies ==
    /\ rd.pc = "used"
       => [version |-> rd.version, collectors |-> rd.collectors] \in Published
    /\ rd.pc \in {"holding", "half", "used"}
       => polHeap[rd.snap] = rd.copy
    /\ rd.pc = "returned"
       => /\ rd.snap = rd.cur
          /\ rd.enabled = IsCollectorEnabled(polHeap[rd.cur], rd.name)
          /\ rd.interval = GetCollectorInterval(polHeap[rd.cur], rd.name,
                                                SavedConfig.collection_interval)

\* a snapshot was taken before a swap and read, in two steps, after it
C20_Witness ==
    /\ rd.pc = "used"
    /\ polCurrent # rd.snap
    /\ rd.version = rd.copy.version
    /\ rd.collectors # polHeap[polCurrent].collectors

(***************************************************************************)
(* Claims about the audit journal and the application log.                 *)
(***************************************************************************)
\* where the line of event e is in the journal (0: nowhere)
AudLineOf(f, e) ==
    IF \E i \in 1..Len(f) : f[i].ev = e
    THEN CHOOSE i \in 1..Len(f) : f[i].ev = e
    ELSE 0

\* C21: every LogEvent that returned nil has appended exactly one whole
\* line, which is on disk (it survives a crash) and comes after the line of
\* every call that had returned nil before it began; no two callers are
\* inside LogEvent's critical section together; and the journal only grows:
\* the running program never changes or removes a line it holds, and a
\* crash never takes a synced one.
C21_AuditOrderedAndDurable ==
    [][/\ \A e \in Returned(audLog') :
             /\ Cardinality({i \in 1..Len(audFile') : audFile'[i].ev = e}) = 1
             /\ audFile'[AudLineOf(audFile', e)].whole
             /\ AudLineOf(audFile', e) <= audSynced'
             /\ \A a \in audLog'[e].pred :
                    AudLineOf(audFile', a) < AudLineOf(audFile', e)
       /\ Cardinality({t \in AudCallers :
                          audCalls'[t].pc \in {"locked", "written"}}) <= 1
       /\ SubSeq(audFile, 1, audSynced) = SubSeq(audFile', 1, audSynced)
       /\ (\E t \in AudCallers : audCalls'[t].pc # "dead")
              => /\ Len(audFile') >= Len(audFile)
                 /\ SubSeq(audFile', 1, Len(audFile)) = audFile]_vars

\* two calls overlapped, a third began after one of them had returned, all
\* three returned nil, and then the machine crashed
C21_Witness ==
    /\ Cardinality(Returned(audLog)) = 3
    /\ \E e \in DOMAIN audLog : audLog[e].pred # {} /\ audLog[e].res = "ok"
    /\ \E e \in DOMAIN audLog : \E a \in DOMAIN audLog :
          e # a /\ a \notin audLog[e].pred /\ e \notin audLog[a].pred
    /\ \A t \in AudCallers : audCalls[t].pc = "dead"

\* the bytes in a log file
RECURSIVE LogFileSize(_)
LogFileSize(f) == IF f = <<>> THEN 0 ELSE Head(f).size + LogFileSize(Tail(f))

RECURSIVE LogTotalSize(_, _)
LogTotalSize(fs, idx) ==
    IF idx = {} THEN 0
    ELSE LET i == CHOOSE i \in idx : TRUE
         IN  LogFileSize(fs[i]) + LogTotalSize(fs, idx \ {i})

\* the longest line
MaxLineSize == CHOOSE n \in LineSizes : \A m \in LineSizes : m <= n

\* C22: with max_backups = N the only backups that exist are path.1..path.N;
\* every write returns (no caller is left waiting inside log), and when no
\* write is in progress the current file is below the size limit; the total
\* of all files is at most (N + 1) times the limit plus one line.
C22_RotationBoundsFootprint ==
    /\ \A i \in DOMAIN logFiles : i <= lg.maxBackups
    /\ \A t \in LogWriters : lw[t].pc # "deadlocked"
    /\ logMu = 0 => LogFileSize(logFiles[0]) < lg.maxSize
    /\ LogTotalSize(logFiles, DOMAIN logFiles)
          <= (lg.maxBackups + 1) * lg.maxSize + MaxLineSize

\* C23: the records of a higher-numbered backup were all written before,
\* and are no younger than, those of every lower-numbered file, the current
\* file being the lowest; within a file they are in the order written.
C23_RotationKeepsOrder ==
    /\ \A i \in DOMAIN logFiles : \A j \in DOMAIN logFiles :
          i < j => \A n \in 1..Len(logFiles[i]) : \A m \in 1..Len(logFiles[j]) :
                      /\ logFiles[j][m].id < logFiles[i][n].id
                      /\ logFiles[j][m].ts <= logFiles[i][n].ts
    /\ \A i \in DOMAIN logFiles :
          \A n \in 1..Len(logFiles[i]) : \A m \in 1..Len(logFiles[i]) :
              n < m => /\ logFiles[i][n].id < logFiles[i][m].id
                       /\ logFiles[i][n].ts <= logFiles[i][m].ts

\* two backups and a current file with a record, after three rotations, the
\* oldest file discarded, and two callers that overlapped in time
C23_Witness ==
    /\ DOMAIN logFiles = {0, 1, 2}
    /\ logFiles[0] # <<>>
    /\ logFiles[2][1].id > 1
    /\ logFiles[2][1].ts < logFiles[0][1].ts
    /\ \E t \in LogWriters : lw[t].pc = "called" /\ lw[t].t0 < clock

(***************************************************************************)
(* Claims about the updater.                                               *)
(***************************************************************************)
\* C24: InstallUpdate is called only in a PerformUpdate whose VerifyUpdate
\* returned nil, and what it is given has the checksum of the metadata;
\* after a checksum mismatch or a signature error InstallUpdate was not
\* called and the executable and its backup are as they were; after a 204
\* nothing was downloaded and nothing installed.
C24_InstallOnlyAfterVerify ==
    /\ upc = "install" => /\ updHist.verify = "ok"
                          /\ Sha256Hex(tmpFile) = meta.checksum
    /\ updHist.installCalled => updHist.verify = "ok"
    /\ updHist.verify \in {"checksum", "signature"}
          => /\ ~updHist.installCalled
             /\ upc = "done"
             /\ exe = updHist.exe0
    /\ updHist.status = 204
          => /\ ~updHist.downloaded
             /\ ~updHist.installCalled
             /\ upc = "done"
             /\ exe = updHist.exe0

\* a second update, after one was installed, is refused for its checksum
C24_Witness ==
    /\ updHist.runs = 2
    /\ updHist.verify = "checksum"
    /\ exe = [cur |-> "v2", old |-> "v1"]
    /\ upc = "done"

(***************************************************************************)
(* Claims about Prune and the drain of the buffer.                         *)
(***************************************************************************)
\* C25: a Prune that starts within the limit removes nothing; one that
\* starts above it removes only files that are no younger than every file
\* it keeps, leaves the kept files as they were, and removes no more than
\* was needed to come within the limit.
C25_PruneEvictsOldestFirst ==
    [][lastOp'.op = "Prune" /\ lastOp' # lastOp =>
         LET removed == DOMAIN files \ DOMAIN files'
         IN  /\ DOMAIN files' \subseteq DOMAIN files
             /\ \A k \in DOMAIN files' : files'[k] = files[k]
             /\ currentSize <= maxSize => removed = {}
             /\ \A r \in removed : \A k \in DOMAIN files' :
                    files[r].mtime <= files[k].mtime
             /\ removed # {} =>
                    \E r \in removed : currentSize' + files[r].size > maxSize]_vars

C27_DrainStopsAtFirstFailure ==
    [][/\ (spc = "drain" /\ drain' # drain)
          => /\ ~lastPost'.ok
                => spc' = "idle" /\ drain' = <<>> /\ files' = files
             /\ (lastPost'.ok /\ Len(drain) > 1)
                => spc' = "drain" /\ files' = files
             /\ (lastPost'.ok /\ Len(drain) = 1)
                => spc' = "idle" /\ files' = EmptyDir /\ currentSize' = 0
       /\ (\E n \in DOMAIN files : n \notin DOMAIN files')
          => spc = "drain" /\ lastPost'.ok /\ Len(drain) = 1]_vars

(***************************************************************************)
(* Claims about the pending queue, the flushes and sendWithRetry.          *)
(***************************************************************************)
\* C28: whenever no call holds the sender (every Send has returned), the
\* pending queue holds fewer than batch_size records; a flush that gives up
\* on the live send leaves the queue empty as one that succeeds does.
C28_QueueBelowBatchSize ==
    [][/\ caller' = "none" => Len(queue') < BatchSize
       /\ (spc # "idle" /\ spc' = "idle") => queue' = <<>>]_vars

\* C29: a flush starts only when no flush is in progress and nobody holds
\* the sender; the batch of the flush in progress and its owner are not
\* replaced before it ends; a drain runs only inside the flush whose live
\* send succeeded; and the batch of a flush is the pending records in the
\* order in which they were submitted, posted as it is.
C29_FlushesSerialized ==
    [][/\ (spc = "idle" /\ spc' # "idle")
          => /\ caller = "none"
             /\ caller' \in {"Send", "Ticker"}
             /\ combined' = queue'
             /\ \A i \in 1..Len(combined') : \A j \in 1..Len(combined') :
                    i < j => combined'[i] < combined'[j]
       /\ spc # "idle"
          => /\ combined' = combined
             /\ caller' \in {caller, "none"}
             /\ caller' = "none" <=> spc' = "idle"
             /\ queue' # queue => queue' = <<>>
       /\ (spc' = "drain" /\ spc # "drain")
          => spc = "post" /\ lastPost'.ok /\ lastPost'.kind = "live"
       /\ lastPost'.kind = "live" /\ lastPost' # lastPost
          => lastPost'.batch = combined]_vars

\* the ticker's flush is in its retry loop while a collector has a record
\* to submit, and the records of the batch came from more than one Send
C29_Witness ==
    /\ caller = "Ticker"
    /\ spc = "backoff"
    /\ Len(combined) >= 2
    /\ nextRec <= MaxRec

\* sendWithRetry returns an error in this step
RetryFails ==
    /\ spc \in {"post", "backoff"}
    /\ spc' = "idle"
    /\ retryErr' # "nil"

UnbootstrappedFile ==
    /\ boot0.cfgFile.exists
    /\ ~boot0.cfgFile.c.bootstrapped
    /\ ValidateBootstrap(LoadOverlay(boot0.cfgFile.c, env))

\* C32: with a config file that is not yet bootstrapped and credentials at
\* hand, run() goes through the bootstrap: once it is past loading (the
\* server accepting the request), one bootstrap call was made, the triple is
\* on disk and the saved config is marked bootstrapped.
C32_UnbootstrappedFileBootstraps ==
    (/\ UnbootstrappedFile
     /\ allAccepted
     /\ ~ctxDone
     /\ ~DiskWriteFailed
     /\ rpc \notin {"init", "loaded", "bs_call", "save_cert", "save_key",
                    "save_ca", "save_cfg"})
    => (/\ bsCalls = 1
        /\ certs = IssuedCerts
        /\ cfgFile.c.bootstrapped)

\* C33: a return of run() that the cancelled context brings about, from the
\* wait of the bootstrap retry loop or from the run loop, is a clean one: no
\* error is returned, and the scheduler and the health monitor are stopped.
C33_CancellationIsCleanShutdown ==
    [][(/\ ctxDone
        /\ rpc \in {"bs_wait", "run_loop"}
        /\ rpc' # rpc)
       => (/\ rpc' = "exit_ok"
           /\ runErr' = "none"
           /\ started' = {})]_vars

C36_LoggingNeverDeadlocks ==
    /\ \A t \in LogWriters : ~(logMu = t /\ lw[t].pc = "deadlocked")
    /\ (\E t \in LogWriters : lw[t].pc = "called") => logMu = 0

(***************************************************************************)
(* Claims about the scheduler's jobs and lifecycle.                        *)
(***************************************************************************)
\* the context a job goroutine was given is done: its select has the
\* ctx.Done() case ready, and the collectCtx that runCollector derives from
\* it for Collect is cancelled
JobCtxDone(j) == ~j.bg /\ ctxDone

\* C34: once the shared context is cancelled, every live collector job,
\* whether Start or AddCollector started it, holds a cancelled context: its
\* select can take the ctx.Done() case without a Stop, and its Collect call
\* sees the cancellation.
C34_JobsObserveSharedCancellation ==
    ctxDone => \A j \in BagToSet(jobs) : JobCtxDone(j)

\* C37: the lifecycle can be repeated: close(s.stopCh) is never called on a
\* closed channel (Stop does not panic), and a scheduler that is running
\* with no Stop under way has its stop channel open, so the jobs of a second
\* Start keep running until the next Stop.
C37_LifecycleRepeatable ==
    /\ stopPc # "panicked"
    /\ (schRunning /\ stopPc = "idle") => ~stopClosed

(***************************************************************************)
(* Claims about delivery: duplicates and loss.                             *)
(***************************************************************************)
\* the records held in the pending queue, and those held in buffer files
Pending == {queue[i] : i \in DOMAIN queue}
Buffered ==
    UNION {{files[n].data[i] : i \in DOMAIN files[n].data} : n \in DOMAIN files}

\* C38: when no flush is in progress, no record is held both in the pending
\* queue and in a buffer file (so that a later flush and drain cannot post
\* it twice).
C38_NoRecordInQueueAndBuffer ==
    caller = "none" => Pending \cap Buffered = {}

\* the records of a batch
Records(batch) == {batch[i] : i \in DOMAIN batch}

\* C39: a record passed to Send is put in the pending queue and leaves it
\* only in the step in which the server accepts a live POST that carries it;
\* and the drain removes a buffer file only after ReadAll has read it and
\* every batch read has been re-sent successfully, never a file it skipped.
C39_NoSilentLoss ==
    [][/\ nextRec' # nextRec => nextRec \in Pending'
       /\ \A r \in Pending :
             r \notin Pending'
             => /\ lastPost'.kind = "live"
                /\ lastPost'.ok
                /\ r \in Records(lastPost'.batch)
                /\ spc = "post"
       /\ (\E n \in DOMAIN files : n \notin DOMAIN files')
          => /\ spc = "drain"
             /\ lastPost'.kind = "drain"
             /\ lastPost'.ok
             /\ Len(drain) = 1
             /\ lastOp.op = "ReadAll"
             /\ \A n \in DOMAIN files \ DOMAIN files' :
                   n \notin lastOp.skipped]_vars

(***************************************************************************)
(* Claims about the buffer's size counter.                                 *)
(***************************************************************************)
\* C40: after any sequence of Write, Prune and Clear calls, b.currentSize
\* (what Size() returns) is the total size of the files in the directory.
C40_SizeMatchesDirectory ==
    currentSize = calculateSize(files)

====
